---- MODULE Spec2Model ----
(***************************************************************************)
(* Model of the shear access controller (Slapstick77/shear).               *)
(*                                                                         *)
(*   card_reader.py  CardReader: frame assembly of raw HID reports         *)
(*   app.py          decision engine (handle_card_read), shear lock state  *)
(*                   machine (unlock_shear, lock_shear, expiry timer,      *)
(*                   motion handler) and the command routes                *)
(*   database.py     users, pending_requests and scan_events tables        *)
(*   labjack_u3.py   LabJackU3: digital outputs and the input monitor      *)
(*                                                                         *)
(* Each handler is one atomic action.  Time is a discrete clock `now`;     *)
(* one tick stands for half a second, so card_timeout (0.5 s) is 1 tick    *)
(* and duplicate_timeout (2.0 s) is 4 ticks.  The unlock timeout is       *)
(* scaled down to a few ticks so that expiry falls inside the checked      *)
(* horizon.  The broadcast queue (card_scan_events) and the in-memory      *)
(* session log are not part of the state modelled here.                    *)
(***************************************************************************)
EXTENDS Integers, Sequences, FiniteSets, TLC

VARIABLES
    now,      \* wall clock, in ticks                (time.time / datetime.now)
    reader,   \* fields of the CardReader object     (card_reader.py)
    app,      \* module globals of app.py
    lj,       \* fields of the LabJackU3 object      (labjack_u3.py)
    db,       \* tables of shear_app.db              (database.py)
    timers,   \* started threading.Timer objects not yet cancelled or run,
              \* each named by the instant it is due
    ev,       \* history: the operation that made the last step, with its inputs
    hist      \* history: facts about earlier steps that the properties refer to

vars == <<now, reader, app, lj, db, timers, ev, hist>>

\* Python's None; every optional value of the model is a record
None == [none |-> TRUE]

\* ------------------------------------------------------------------ bounds
MaxTime == 6          \* horizon of the clock
UnlockTimeout == 3    \* SHEAR_SETTINGS['unlock_timeout'], scaled to ticks
MaxCycles == 2        \* cap on shear_cycles
MaxLog == 4           \* cap on rows of scan_events
MaxReads == 3         \* cap on frames the reader hands to its callback
MaxGroupBytes == 5    \* cap on the non-zero bytes of one group of reports
ReportLen == 2        \* bytes per raw report (64 on the device)

\* ------------------------------------------------------- program constants
CardTimeout == 1          \* self.card_timeout = 0.5 s
DuplicateTimeout == 4     \* self.duplicate_timeout = 2.0 s
MinFrameBytes == 4        \* len(self.card_buffer) >= 4

InputChannels == <<"FIO4", "FIO5">>
OutputChannels == {"FIO6", "FIO7"}

\* --------------------------------------------------------------- integers
\* Python integers are unbounded; a card number is kept as its decimal
\* digits, least significant first, so that long frames do not overflow.

\* digits of (value of ds) * m + c
RECURSIVE MulAdd(_, _, _)
MulAdd(ds, m, c) ==
    IF ds = <<>>
    THEN IF c = 0 THEN <<>> ELSE <<c % 10>> \o MulAdd(<<>>, m, c \div 10)
    ELSE LET v == Head(ds) * m + c
         IN  <<v % 10>> \o MulAdd(Tail(ds), m, v \div 10)

\* raw_int = (raw_int << 8) | byte, over the buffer from its first byte
RECURSIVE raw_int_from(_, _)
raw_int_from(acc, buf) ==
    IF buf = <<>> THEN acc
    ELSE raw_int_from(MulAdd(acc, 256, Head(buf)), Tail(buf))

raw_int(buf) == raw_int_from(<<>>, buf)

DigitChar == <<"0", "1", "2", "3", "4", "5", "6", "7", "8", "9">>
HexChar == DigitChar \o <<"A", "B", "C", "D", "E", "F">>

\* str(n): decimal characters, most significant first; "0" for zero
str(ds) ==
    IF ds = <<>> THEN <<"0">>
    ELSE [i \in 1..Len(ds) |-> DigitChar[ds[Len(ds) + 1 - i] + 1]]

\* bytes.hex().upper(): two hexadecimal characters per byte
RECURSIVE hex_upper(_)
hex_upper(bs) ==
    IF bs = <<>> THEN <<>>
    ELSE <<HexChar[(Head(bs) \div 16) + 1], HexChar[(Head(bs) % 16) + 1]>>
         \o hex_upper(Tail(bs))

\* ------------------------------------------------------------ CardReader
\* CardReader.__init__
ReaderInit ==
    [card_buffer |-> <<>>, last_read_time |-> 0, last_processed_card |-> None]

\* byte values of a report (0..255 on the device): the padding byte and one
\* non-zero value
ByteValues == {0, 1}

RawReports == [1..ReportLen -> ByteValues]

\* new_bytes = [b for b in raw_data if b != 0]
new_bytes(raw_data) == SelectSeq(raw_data, LAMBDA b : b # 0)

\* process_card_buffer that restarts the duplicate window when it suppresses
process_card_buffer_extends_window(r, t) ==
    IF r.card_buffer = <<>> THEN [reader |-> r, result |-> None]
    ELSE LET card_id == str(raw_int(r.card_buffer)) IN
         IF card_id = <<>> \/ card_id = <<"0">>
         THEN [reader |-> r, result |-> None]
         ELSE IF /\ r.last_processed_card # None
                 /\ r.last_processed_card.card_id = card_id
                 /\ t - r.last_processed_card.timestamp < DuplicateTimeout
         THEN [reader |-> [r EXCEPT !.last_processed_card.timestamp = t],
               result |-> None]
         ELSE [reader |-> [r EXCEPT !.last_processed_card =
                                        [card_id |-> card_id, timestamp |-> t]],
               result |-> [card_id |-> card_id, raw_bytes |-> r.card_buffer]]

\* CardReader.process_card_buffer: the reader afterwards and the returned
\* card dictionary (None when rejected or suppressed), at time t
process_card_buffer(r, t) ==
    IF r.card_buffer = <<>> THEN [reader |-> r, result |-> None]
    ELSE LET card_id == str(raw_int(r.card_buffer)) IN
         IF card_id = <<>> \/ card_id = <<"0">>
         THEN [reader |-> r, result |-> None]
         ELSE IF /\ r.last_processed_card # None
                 /\ r.last_processed_card.card_id = card_id
                 /\ t - r.last_processed_card.timestamp < DuplicateTimeout
         THEN [reader |-> r, result |-> None]
         ELSE [reader |-> [r EXCEPT !.last_processed_card =
                                        [card_id |-> card_id, timestamp |-> t]],
               result |-> [card_id |-> card_id, raw_bytes |-> r.card_buffer]]

\* parse_card_data whose fallback identifier is the hex of the non-zero bytes
parse_card_data_hex_of_new_bytes(r, raw_data, t, raises) ==
    IF raises
    THEN [reader |-> r,
          result |-> [card_id |-> hex_upper(new_bytes(raw_data)),
                      raw_bytes |-> raw_data]]
    ELSE LET nb == new_bytes(raw_data) IN
    IF nb = <<>> THEN [reader |-> r, result |-> None]
    ELSE LET kept == IF t - r.last_read_time > CardTimeout /\ r.card_buffer # <<>>
                     THEN <<>> ELSE r.card_buffer
             r1 == [r EXCEPT !.card_buffer = kept \o nb, !.last_read_time = t]
         IN  IF Len(r1.card_buffer) >= MinFrameBytes
             THEN LET p == process_card_buffer(r1, t) IN
                  IF p.result # None
                  THEN [reader |-> [p.reader EXCEPT !.card_buffer = <<>>],
                        result |-> p.result]
                  ELSE [reader |-> p.reader, result |-> None]
             ELSE [reader |-> r1, result |-> None]

\* parse_card_data that keeps the pending bytes whatever their age
parse_card_data_keeps_stale(r, raw_data, t, raises) ==
    IF raises
    THEN [reader |-> r,
          result |-> [card_id |-> hex_upper(raw_data), raw_bytes |-> raw_data]]
    ELSE LET nb == new_bytes(raw_data) IN
    IF nb = <<>> THEN [reader |-> r, result |-> None]
    ELSE LET r1 == [r EXCEPT !.card_buffer = @ \o nb, !.last_read_time = t]
         IN  IF Len(r1.card_buffer) >= MinFrameBytes
             THEN LET p == process_card_buffer(r1, t) IN
                  IF p.result # None
                  THEN [reader |-> [p.reader EXCEPT !.card_buffer = <<>>],
                        result |-> p.result]
                  ELSE [reader |-> p.reader, result |-> None]
             ELSE [reader |-> r1, result |-> None]

\* parse_card_data that keeps the bytes of a report only once they complete
\* a frame
parse_card_data_drops_short(r, raw_data, t, raises) ==
    IF raises
    THEN [reader |-> r,
          result |-> [card_id |-> hex_upper(raw_data), raw_bytes |-> raw_data]]
    ELSE LET nb == new_bytes(raw_data) IN
    IF nb = <<>> THEN [reader |-> r, result |-> None]
    ELSE LET kept == IF t - r.last_read_time > CardTimeout /\ r.card_buffer # <<>>
                     THEN <<>> ELSE r.card_buffer
             r1 == [r EXCEPT !.card_buffer = kept \o nb, !.last_read_time = t]
         IN  IF Len(r1.card_buffer) >= MinFrameBytes
             THEN LET p == process_card_buffer(r1, t) IN
                  IF p.result # None
                  THEN [reader |-> [p.reader EXCEPT !.card_buffer = <<>>],
                        result |-> p.result]
                  ELSE [reader |-> p.reader, result |-> None]
             ELSE [reader |-> r, result |-> None]

\* CardReader.parse_card_data on one raw report at time t.  No statement of
\* the try block raises for a block of bytes, so the except branch (identifier
\* = raw hex of the report) is taken only when `raises` is set.
parse_card_data(r, raw_data, t, raises) ==
    IF raises
    THEN [reader |-> r,
          result |-> [card_id |-> hex_upper(raw_data), raw_bytes |-> raw_data]]
    ELSE LET nb == new_bytes(raw_data) IN
    IF nb = <<>> THEN [reader |-> r, result |-> None]
    ELSE LET kept == IF t - r.last_read_time > CardTimeout /\ r.card_buffer # <<>>
                     THEN <<>> ELSE r.card_buffer
             r1 == [r EXCEPT !.card_buffer = kept \o nb, !.last_read_time = t]
         IN  IF Len(r1.card_buffer) >= MinFrameBytes
             THEN LET p == process_card_buffer(r1, t) IN
                  IF p.result # None
                  THEN [reader |-> [p.reader EXCEPT !.card_buffer = <<>>],
                        result |-> p.result]
                  ELSE [reader |-> p.reader, result |-> None]
             ELSE [reader |-> r1, result |-> None]


\* ------------------------------------------------------------- app globals
\* SHEAR_SETTINGS and the session data of app.py as loaded
AppInit ==
    [SHEAR_SETTINGS |-> [unlock_timeout |-> UnlockTimeout,
                         shear_output_pin |-> "FIO6",
                         motion_input_pin |-> "FIO4",
                         error_action |-> "unlock"],
     last_card_read |-> None,          \* else [card_id |-> the identifier]
     shear_unlock_timer |-> None,
     shear_unlocked |-> FALSE,
     shear_unlock_timestamp |-> None,
     shear_unlock_user |-> None,
     shear_cycles |-> 0,
     output_modes |-> [c \in OutputChannels |-> "auto"],
     manual_output_states |-> [c \in OutputChannels |-> FALSE]]

\* LabJackU3.__init__ followed by connect() and start_monitoring() in
\* initialize_components; `connected` is "self.device is not None"
LabJackInit(connected) ==
    [connected |-> connected,
     running |-> connected,
     pc |-> "poll",
     output_states |-> [c \in OutputChannels |-> FALSE],
     last_input_states |-> [i \in 1..Len(InputChannels) |-> FALSE]]

\* init_db: empty tables
DbInit == [users |-> <<>>, pending_requests |-> {}, scan_events |-> <<>>]

HistInit ==
    [group |-> [bytes |-> <<>>, ids |-> <<>>],
     auth |-> None,
     removed |-> {},
     unlocks |-> {}]

\* ---------------------------------------------------------------- database
\* get_user that returns the row although the query failed
get_user_ignores_failure(d, card_id, fails) ==
    IF card_id \in DOMAIN d.users THEN d.users[card_id] ELSE None

\* database.get_user: the users row of card_id, whatever its status; None
\* when there is no row or the query fails
get_user(d, card_id, fails) ==
    IF fails THEN None
    ELSE IF card_id \in DOMAIN d.users THEN d.users[card_id] ELSE None

\* database.get_pending_request
get_pending_request(d, card_id, fails) ==
    IF fails THEN None
    ELSE IF card_id \in d.pending_requests THEN [card_id |-> card_id] ELSE None

\* database.log_scan_event: INSERT INTO scan_events
log_scan_event(d, card_id, result) ==
    [d EXCEPT !.scan_events = Append(@, [card_id |-> card_id, result |-> result])]

\* database.update_user_last_access: UPDATE users SET last_access
update_user_last_access(d, card_id, t) ==
    IF card_id \in DOMAIN d.users
    THEN [d EXCEPT !.users[card_id].last_access = [at |-> t]]
    ELSE d

\* database.add_user: INSERT INTO users; fails on an existing card_id
add_user(d, card_id, status) ==
    IF card_id \in DOMAIN d.users
    THEN [db |-> d, success |-> FALSE]
    ELSE [db |-> [d EXCEPT !.users = (card_id :> [card_id |-> card_id,
                                                   status |-> status,
                                                   last_access |-> None]) @@ @],
          success |-> TRUE]

\* database.add_pending_request: INSERT INTO pending_requests
add_pending_request(d, card_id) ==
    IF card_id \in d.pending_requests
    THEN [db |-> d, success |-> FALSE]
    ELSE [db |-> [d EXCEPT !.pending_requests = @ \cup {card_id}],
          success |-> TRUE]

\* database.remove_pending_request: DELETE FROM pending_requests
remove_pending_request(d, card_id) ==
    [d EXCEPT !.pending_requests = @ \ {card_id}]

\* database.update_user_status: UPDATE users SET status
update_user_status(d, card_id, status) ==
    IF card_id \in DOMAIN d.users
    THEN [d EXCEPT !.users[card_id].status = status]
    ELSE d

\* remove_user that deletes from users only
remove_user_keeps_pending(d, card_id) ==
    [d EXCEPT !.users = [c \in (DOMAIN @) \ {card_id} |-> @[c]]]

\* database.remove_user: DELETE FROM users and FROM pending_requests;
\* scan_events is kept
remove_user(d, card_id) ==
    [d EXCEPT !.users = [c \in (DOMAIN @) \ {card_id} |-> @[c]],
              !.pending_requests = @ \ {card_id}]

\* ----------------------------------------------------------------- LabJack
\* LabJackU3.set_digital_output
set_digital_output(l, channel, state) ==
    IF ~l.connected THEN l
    ELSE IF channel \notin OutputChannels THEN l
    ELSE [l EXCEPT !.output_states[channel] = state]

\* -------------------------------------------------- shear lock controller
\* The state the handlers of app.py work on.  card_scan_events holds the
\* events the running handler appends to the queue of that name, which the
\* card_events stream drains; input_changes holds the change_data the
\* running pass of monitor_loop hands to on_input_change
World ==
    [app |-> app, lj |-> lj, db |-> db, timers |-> timers,
     card_scan_events |-> <<>>, input_changes |-> <<>>]

\* threading.Timer.cancel() on the timer app refers to, if any
cancel_timer(w) ==
    IF w.app.shear_unlock_timer # None
    THEN [w EXCEPT !.timers = @ \ {w.app.shear_unlock_timer}]
    ELSE w

\* start_shear_timeout_timer at time t
start_shear_timeout_timer(w, t) ==
    LET w1 == cancel_timer(w)
        timer == [due |-> t + w.app.SHEAR_SETTINGS.unlock_timeout]
    IN  [w1 EXCEPT !.app.shear_unlock_timestamp = [at |-> t],
                   !.app.shear_unlock_timer = timer,
                   !.timers = @ \cup {timer}]

\* unlock_shear with the call of start_shear_timeout_timer left out
unlock_shear_no_timer(w, user_info, t) ==
    LET w1 == cancel_timer(w)
        shear_pin == w.app.SHEAR_SETTINGS.shear_output_pin
        w2 == IF w1.lj.connected /\ w1.app.output_modes[shear_pin] = "auto"
              THEN [w1 EXCEPT !.lj = set_digital_output(@, shear_pin, TRUE)]
              ELSE w1
    IN  [w2 EXCEPT !.app.shear_unlocked = TRUE,
                   !.app.shear_unlock_timestamp = [at |-> t],
                   !.app.shear_unlock_user = user_info,
                   !.app.shear_cycles = 0]

\* unlock_shear that drives the output whatever the mode of its channel
unlock_shear_ignores_mode(w, user_info, t) ==
    LET w1 == cancel_timer(w)
        shear_pin == w.app.SHEAR_SETTINGS.shear_output_pin
        w2 == IF w1.lj.connected
              THEN [w1 EXCEPT !.lj = set_digital_output(@, shear_pin, TRUE)]
              ELSE w1
        w3 == [w2 EXCEPT !.app.shear_unlocked = TRUE,
                         !.app.shear_unlock_timestamp = [at |-> t],
                         !.app.shear_unlock_user = user_info,
                         !.app.shear_cycles = 0,
                         !.card_scan_events =
                             Append(@, [type |-> "status_change",
                                        shear_unlocked |-> TRUE])]
    IN  start_shear_timeout_timer(w3, t)

\* unlock_shear(card_id, user_info) at time t
unlock_shear(w, user_info, t) ==
    LET w1 == cancel_timer(w)
        shear_pin == w.app.SHEAR_SETTINGS.shear_output_pin
        w2 == IF w1.lj.connected /\ w1.app.output_modes[shear_pin] = "auto"
              THEN [w1 EXCEPT !.lj = set_digital_output(@, shear_pin, TRUE)]
              ELSE w1
        w3 == [w2 EXCEPT !.app.shear_unlocked = TRUE,
                         !.app.shear_unlock_timestamp = [at |-> t],
                         !.app.shear_unlock_user = user_info,
                         !.app.shear_cycles = 0,
                         !.card_scan_events =
                             Append(@, [type |-> "status_change",
                                        shear_unlocked |-> TRUE])]
    IN  start_shear_timeout_timer(w3, t)

\* lock_shear with the cancellation of the timer left out
lock_shear_keeps_timer(w) ==
    LET shear_pin == w.app.SHEAR_SETTINGS.shear_output_pin
        w2 == IF w.lj.connected /\ w.app.output_modes[shear_pin] = "auto"
              THEN [w EXCEPT !.lj = set_digital_output(@, shear_pin, FALSE)]
              ELSE w
    IN  [w2 EXCEPT !.app.shear_unlocked = FALSE,
                   !.app.shear_unlock_timestamp = None,
                   !.app.shear_unlock_user = None]

\* lock_shear()
lock_shear(w) ==
    LET w1 == IF w.app.shear_unlock_timer # None
              THEN [cancel_timer(w) EXCEPT !.app.shear_unlock_timer = None]
              ELSE w
        shear_pin == w.app.SHEAR_SETTINGS.shear_output_pin
        w2 == IF w1.lj.connected /\ w1.app.output_modes[shear_pin] = "auto"
              THEN [w1 EXCEPT !.lj = set_digital_output(@, shear_pin, FALSE)]
              ELSE w1
    IN  [w2 EXCEPT !.app.shear_unlocked = FALSE,
                   !.app.shear_unlock_timestamp = None,
                   !.app.shear_unlock_user = None,
                   !.card_scan_events =
                       Append(@, [type |-> "status_change",
                                  shear_unlocked |-> FALSE])]

\* the decision with the pending requests consulted before the users
Decision_pending_first(d, card_id, faults) ==
    IF get_pending_request(d, card_id, "get_pending_request" \in faults) # None
    THEN "pending"
    ELSE IF get_user(d, card_id, "get_user" \in faults) # None THEN "unlock"
    ELSE "unknown"

\* The outcome handle_card_read reaches for card_id; `faults` names the
\* Directory queries that fail with a database error during this scan
Decision(d, card_id, faults) ==
    IF get_user(d, card_id, "get_user" \in faults) # None THEN "unlock"
    ELSE IF get_pending_request(d, card_id, "get_pending_request" \in faults) # None
    THEN "pending"
    ELSE "unknown"

\* handle_card_read that audits the scan only after the decision
handle_card_read_scan_last(w, card_id, t, faults) ==
    LET w1 == [w EXCEPT !.app.last_card_read = [card_id |-> card_id]]
        user == get_user(w1.db, card_id, "get_user" \in faults)
        outcome == Decision(w1.db, card_id, faults)
    IN  IF outcome = "unlock"
        THEN LET w2 == unlock_shear(w1, user, t)
             IN  [w2 EXCEPT !.db = log_scan_event(
                                       log_scan_event(
                                           update_user_last_access(@, card_id, t),
                                           card_id, "unlock"),
                                       card_id, "scan")]
        ELSE [w1 EXCEPT !.db = log_scan_event(
                                   log_scan_event(@, card_id, outcome),
                                   card_id, "scan")]

\* handle_card_read that locks the shear when it refuses a card
handle_card_read_locks_on_denial(w, card_id, t, faults) ==
    LET w1 == [w EXCEPT !.app.last_card_read = [card_id |-> card_id],
                        !.db = log_scan_event(@, card_id, "scan")]
        user == get_user(w1.db, card_id, "get_user" \in faults)
        outcome == Decision(w1.db, card_id, faults)
    IN  IF outcome = "unlock"
        THEN LET w2 == unlock_shear(w1, user, t)
             IN  [w2 EXCEPT !.db = log_scan_event(
                                       update_user_last_access(@, card_id, t),
                                       card_id, "unlock")]
        ELSE [lock_shear(w1) EXCEPT !.db = log_scan_event(@, card_id, outcome)]

\* handle_card_read(card_data) at time t
handle_card_read(w, card_id, t, faults) ==
    LET w1 == [w EXCEPT !.app.last_card_read = [card_id |-> card_id],
                        !.db = log_scan_event(@, card_id, "scan")]
        user == get_user(w1.db, card_id, "get_user" \in faults)
        outcome == Decision(w1.db, card_id, faults)
    IN  IF outcome = "unlock"
        THEN LET w2 == unlock_shear(w1, user, t)
             IN  [w2 EXCEPT !.db = log_scan_event(
                                       update_user_last_access(@, card_id, t),
                                       card_id, "unlock"),
                            !.card_scan_events =
                                Append(@, [type |-> "card_scan",
                                           status |-> "authorized"])]
        ELSE [w1 EXCEPT !.db = log_scan_event(@, card_id, outcome),
                        !.card_scan_events =
                            Append(@, [type |-> "card_scan",
                                       status |-> IF outcome = "pending"
                                                  THEN "authorization_pending"
                                                  ELSE "unknown"])]

\* handle_labjack_input_change that counts the cycle but leaves the timer
handle_labjack_input_change_no_restart(w, channel, state, t) ==
    IF channel = w.app.SHEAR_SETTINGS.motion_input_pin /\ w.app.shear_unlocked
    THEN IF state
         THEN [w EXCEPT !.app.shear_cycles = @ + 1]
         ELSE w
    ELSE w

\* handle_labjack_input_change(change_data) at time t, for a digital input
handle_labjack_input_change(w, channel, state, t) ==
    IF channel = w.app.SHEAR_SETTINGS.motion_input_pin /\ w.app.shear_unlocked
    THEN IF state
         THEN [start_shear_timeout_timer(w, t) EXCEPT !.app.shear_cycles = @ + 1]
         ELSE w
    ELSE w

\* timeout_remaining as api_status reports it at time t
timeout_remaining(a, t) ==
    IF a.shear_unlock_timer # None /\ a.shear_unlocked
       /\ a.shear_unlock_timestamp # None
    THEN LET left == a.SHEAR_SETTINGS.unlock_timeout - (t - a.shear_unlock_timestamp.at)
         IN  IF left > 0 THEN left ELSE 0
    ELSE 0

\* The step takes the world to w
Becomes(w) ==
    /\ app' = w.app
    /\ lj' = w.lj
    /\ db' = w.db
    /\ timers' = w.timers

\* --------------------------------------------------------------- clock
\* Time passes by one tick, but not past the instant a started timer is due.
Tick ==
    /\ now < MaxTime
    /\ \A timer \in timers : timer.due > now
    /\ now' = now + 1
    /\ ev' = [op |-> "tick"]
    /\ UNCHANGED <<reader, app, lj, db, timers, hist>>

\* ------------------------------------------------------ controller actions
\* Identifiers of two cards, as the reader forms them
CardA == str(raw_int(<<1, 1, 1, 1>>))
CardB == str(raw_int(<<1, 1, 1, 1, 1>>))
Cards == {CardA, CardB}

DirectoryQueries == {"get_user", "get_pending_request"}

\* What a lock command or a handled motion edge leaves of the record of the
\* last unlock through unlock_shear
Superseded == [hist EXCEPT !.auth = None]

Unlocked(t) ==
    [hist EXCEPT !.auth = [at |-> t,
                           timeout |-> app.SHEAR_SETTINGS.unlock_timeout,
                           emergency_unlock |-> FALSE]]

\* An emergency-unlock command follows the recorded unlock
EmergencyUnlocked ==
    IF hist.auth = None THEN hist
    ELSE [hist EXCEPT !.auth.emergency_unlock = TRUE]

\* The state of the shear a command finds
Before ==
    [unlocked |-> app.shear_unlocked,
     timer |-> app.shear_unlock_timer,
     mode |-> app.output_modes[app.SHEAR_SETTINGS.shear_output_pin],
     connected |-> lj.connected]

\* The expiry timer runs lock_shear on its thread once it is due
TimerExpiry(timer) ==
    /\ timer \in timers
    /\ timer.due <= now
    /\ Becomes(lock_shear([World EXCEPT !.timers = @ \ {timer}]))
    /\ ev' = [op |-> "timer_expiry"]
    /\ UNCHANGED <<now, reader, hist>>

\* handle_card_read called with a card identifier
ScanCard(card_id, faults) ==
    /\ Len(db.scan_events) + 2 <= MaxLog
    /\ Becomes(handle_card_read(World, card_id, now, faults))
    /\ ev' = [op |-> "scan", card_id |-> card_id, faults |-> faults,
              outcome |-> Decision(db, card_id, faults),
              before |-> Before,
              card_scan_events |->
                  handle_card_read(World, card_id, now, faults).card_scan_events]
    /\ hist' = IF Decision(db, card_id, faults) = "unlock"
               THEN Unlocked(now) ELSE hist
    /\ UNCHANGED <<now, reader>>

\* api_emergency_stop
EmergencyStop ==
    /\ Becomes(lock_shear(World))
    /\ ev' = [op |-> "emergency_stop", before |-> Before]
    /\ hist' = Superseded
    /\ UNCHANGED <<now, reader>>

\* api_lock_shear and manual_lock
ManualLock ==
    /\ Becomes(lock_shear(World))
    /\ ev' = [op |-> "manual_lock"]
    /\ hist' = Superseded
    /\ UNCHANGED <<now, reader>>

\* logout
Logout ==
    /\ Becomes([lock_shear(World) EXCEPT !.app.last_card_read = None])
    /\ ev' = [op |-> "logout"]
    /\ hist' = Superseded
    /\ UNCHANGED <<now, reader>>

\* api_emergency_unlock
api_emergency_unlock(w) ==
    LET error_action == w.app.SHEAR_SETTINGS.error_action IN
    IF error_action = "unlock"
    THEN IF w.lj.connected
         THEN [w EXCEPT !.lj = set_digital_output(
                                   @, w.app.SHEAR_SETTINGS.shear_output_pin, TRUE),
                        !.app.shear_unlocked = TRUE]
         ELSE w
    ELSE IF error_action = "lock" THEN lock_shear(w)
    ELSE w

EmergencyUnlock ==
    /\ Becomes(api_emergency_unlock(World))
    /\ ev' = [op |-> "emergency_unlock"]
    /\ hist' = EmergencyUnlocked
    /\ UNCHANGED <<now, reader>>

\* api_authorized_unlock
AuthorizedUnlock ==
    /\ Becomes(unlock_shear(World, [name |-> "Unknown User"], now))
    /\ ev' = [op |-> "authorized_unlock", before |-> Before,
              card_scan_events |->
                  unlock_shear(World, [name |-> "Unknown User"],
                               now).card_scan_events]
    /\ hist' = Unlocked(now)
    /\ UNCHANGED <<now, reader>>

\* set_output_mode that puts every channel at LOW on its return to auto
set_output_mode_default_low(w, channel, mode) ==
    IF channel \in DOMAIN w.app.output_modes
    THEN LET w1 == [w EXCEPT !.app.output_modes[channel] = mode] IN
         IF mode = "auto"
         THEN [w1 EXCEPT !.lj = set_digital_output(@, channel, FALSE)]
         ELSE w1
    ELSE w

\* labjack_control, action 'set_output_mode'
set_output_mode(w, channel, mode) ==
    IF channel \in DOMAIN w.app.output_modes
    THEN LET w1 == [w EXCEPT !.app.output_modes[channel] = mode] IN
         IF mode = "auto"
         THEN IF channel = w.app.SHEAR_SETTINGS.shear_output_pin
              THEN [w1 EXCEPT !.lj = set_digital_output(@, channel,
                                                        w.app.shear_unlocked)]
              ELSE [w1 EXCEPT !.lj = set_digital_output(@, channel, FALSE)]
         ELSE w1
    ELSE w

SetOutputMode(channel, mode) ==
    /\ lj.connected
    /\ Becomes(set_output_mode(World, channel, mode))
    /\ ev' = [op |-> "set_output_mode", channel |-> channel, mode |-> mode,
              level |-> lj.output_states[channel]]
    /\ UNCHANGED <<now, reader, hist>>

\* ------------------------------------------------------ LabJack monitor
\* The samples one poll can take: a stable state per input channel
InputSamples == [1..Len(InputChannels) -> BOOLEAN]

\* the loop over current_inputs handing every HIGH channel to
\* on_input_change, changed or not
RECURSIVE check_input_changes_by_level(_, _, _, _)
check_input_changes_by_level(w, current_inputs, i, t) ==
    IF i > Len(InputChannels) THEN w
    ELSE IF current_inputs[i]
    THEN check_input_changes_by_level(
             handle_labjack_input_change(
                 [w EXCEPT !.lj.last_input_states[i] = current_inputs[i],
                           !.input_changes =
                               Append(@, [channel |-> InputChannels[i],
                                          state |-> current_inputs[i]])],
                 InputChannels[i], current_inputs[i], t),
             current_inputs, i + 1, t)
    ELSE check_input_changes_by_level(
             [w EXCEPT !.lj.last_input_states[i] = current_inputs[i]],
             current_inputs, i + 1, t)

\* LabJackU3.monitor_loop, the loop over current_inputs from channel i on:
\* a changed channel is stored and handed to on_input_change
RECURSIVE check_input_changes(_, _, _, _)
check_input_changes(w, current_inputs, i, t) ==
    IF i > Len(InputChannels) THEN w
    ELSE IF current_inputs[i] # w.lj.last_input_states[i]
    THEN check_input_changes(
             handle_labjack_input_change(
                 [w EXCEPT !.lj.last_input_states[i] = current_inputs[i],
                           !.input_changes =
                               Append(@, [channel |-> InputChannels[i],
                                          state |-> current_inputs[i]])],
                 InputChannels[i], current_inputs[i], t),
             current_inputs, i + 1, t)
    ELSE check_input_changes(w, current_inputs, i + 1, t)

\* index of the configured motion channel among the inputs
MotionIndex ==
    CHOOSE i \in 1..Len(InputChannels) :
        InputChannels[i] = app.SHEAR_SETTINGS.motion_input_pin

\* the edge a sample shows on the motion channel
MotionEdge(current_inputs) ==
    IF current_inputs[MotionIndex] = lj.last_input_states[MotionIndex] THEN "none"
    ELSE IF current_inputs[MotionIndex] THEN "rising" ELSE "falling"

\* One pass of LabJackU3.monitor_loop up to its inner `while True`
MonitorPoll(current_inputs) ==
    /\ lj.running /\ lj.connected
    /\ lj.pc = "poll"
    /\ app.shear_cycles < MaxCycles
    /\ Becomes([check_input_changes(World, current_inputs, 1, now)
                    EXCEPT !.lj.pc = "log_states"])
    /\ ev' = [op |-> "poll", motion |-> MotionEdge(current_inputs),
              before |-> [unlocked |-> app.shear_unlocked,
                          timer |-> app.shear_unlock_timer,
                          timestamp |-> app.shear_unlock_timestamp,
                          cycles |-> app.shear_cycles]]
    /\ hist' = IF MotionEdge(current_inputs) = "rising" /\ app.shear_unlocked
               THEN Superseded ELSE hist
    /\ UNCHANGED <<now, reader>>

\* The inner `while True` of monitor_loop ends only when getDIState raises;
\* the except clause of the outer loop then lets polling resume
MonitorStateLogRaises ==
    /\ lj.running
    /\ lj.pc = "log_states"
    /\ lj' = [lj EXCEPT !.pc = "poll"]
    /\ ev' = [op |-> "log_states_raises"]
    /\ UNCHANGED <<now, reader, app, db, timers, hist>>

\* ---------------------------------------------- the shear lock controller
\* a Directory left by earlier runs: one enrolled user
EnrolledDb ==
    add_user(DbInit, CardA, "active").db

Init ==
    /\ now = 0
    /\ reader = ReaderInit
    /\ app = AppInit
    /\ \E connected \in BOOLEAN : lj = LabJackInit(connected)
    /\ db = EnrolledDb
    /\ timers = {}
    /\ ev = [op |-> "init"]
    /\ hist = HistInit

Next ==
    \/ Tick
    \/ \E timer \in timers : TimerExpiry(timer)
    \/ ScanCard(CardA, {})
    \/ EmergencyStop
    \/ ManualLock
    \/ Logout
    \/ EmergencyUnlock
    \/ AuthorizedUnlock
    \/ \E mode \in {"auto", "manual"} :
           SetOutputMode(app.SHEAR_SETTINGS.shear_output_pin, mode)
    \/ \E current_inputs \in InputSamples : MonitorPoll(current_inputs)
    \/ MonitorStateLogRaises

Spec == Init /\ [][Next]_vars

\* C1: when api_emergency_stop has returned, the shear is Locked and no expiry
\* timer is pending, whatever state the command found (Locked or Unlocked,
\* timer running or not, shear channel in auto or manual mode, DAQ connected
\* or not); in particular a repeated emergency stop leaves the shear Locked.
C1_EmergencyStopLocks ==
    ev.op = "emergency_stop" =>
        /\ ~app.shear_unlocked
        /\ app.shear_unlock_timer = None
        /\ timers = {}

\* an emergency stop that found the shear Unlocked in manual mode with the
\* expiry timer running
C1_Witness ==
    /\ ev.op = "emergency_stop"
    /\ ev.before.unlocked
    /\ ev.before.timer # None
    /\ ev.before.mode = "manual"

\* The timing C2 states of the unlock recorded in hist.auth
TimedUnlock ==
    /\ now < hist.auth.at + hist.auth.timeout => app.shear_unlocked
    /\ now > hist.auth.at + hist.auth.timeout => ~app.shear_unlocked

\* C2, as amended: after an Authorized decision (a card of a user scanned, or
\* the authorized-unlock command) unlocked the shear at time t with timeout T,
\* and with no handled motion edge, no further Authorized decision, no lock
\* command and no emergency-unlock command since, the shear is Unlocked at
\* every instant before t+T and Locked at every instant after t+T.
C2_TimedUnlock ==
    (hist.auth # None /\ ~hist.auth.emergency_unlock) => TimedUnlock

\* the timer of an Authorized decision has expired and locked the shear
C2_Witness ==
    /\ hist.auth # None
    /\ ~hist.auth.emergency_unlock
    /\ now > hist.auth.at + hist.auth.timeout
    /\ ~app.shear_unlocked

\* C2, as stated: the same with only motion edges, further Authorized
\* decisions and lock commands excluded, so also when an emergency unlock
\* has followed the Authorized decision.
C2_AsStated ==
    hist.auth # None => TimedUnlock

\* C3: while the shear is Unlocked, a rising edge on the configured motion
\* channel restarts the expiry timer, so that the remaining time is back at
\* unlock_timeout, and increments shear_cycles by exactly 1; a falling edge
\* on that channel changes neither the timer nor shear_cycles.
C3_MotionEdges ==
    (ev.op = "poll" /\ ev.before.unlocked) =>
        /\ ev.motion = "rising" =>
              /\ app.shear_unlocked
              /\ timeout_remaining(app, now) = app.SHEAR_SETTINGS.unlock_timeout
              /\ app.shear_unlock_timer =
                     [due |-> now + app.SHEAR_SETTINGS.unlock_timeout]
              /\ timers = {app.shear_unlock_timer}
              /\ app.shear_cycles = ev.before.cycles + 1
        /\ ev.motion = "falling" =>
              /\ app.shear_unlocked
              /\ app.shear_unlock_timer = ev.before.timer
              /\ app.shear_unlock_timestamp = ev.before.timestamp
              /\ app.shear_cycles = ev.before.cycles

\* a second rising edge handled while Unlocked, with part of the timeout
\* already used up before it
C3_Witness ==
    /\ ev.op = "poll"
    /\ ev.before.unlocked
    /\ ev.motion = "rising"
    /\ ev.before.cycles = 1
    /\ ev.before.timestamp # None
    /\ ev.before.timestamp.at < now


\* ------------------------------------------- the reader on its own
\* History of the groups of reports: a report with non-zero bytes that comes
\* CardTimeout or more after the previous one starts a new group and closes
\* the group before it.
StartsGroup(nb) ==
    /\ nb # <<>>
    /\ hist.group.bytes # <<>>
    /\ now - reader.last_read_time >= CardTimeout

GroupAfter(nb, emitted) ==
    LET ids == IF emitted = None THEN <<>> ELSE <<emitted.card_id>> IN
    IF StartsGroup(nb)
    THEN [bytes |-> nb, ids |-> ids]
    ELSE [bytes |-> hist.group.bytes \o nb, ids |-> hist.group.ids \o ids]

\* One read of CardReader.read_card_data that returns a report, with no
\* on_card_read callback registered.
ParseReport(raw_data) ==
    LET p == parse_card_data(reader, raw_data, now, FALSE)
        g == GroupAfter(new_bytes(raw_data), p.result)
    IN  /\ Len(g.bytes) <= MaxGroupBytes
        /\ reader' = p.reader
        /\ hist' = [hist EXCEPT !.group = g]
        /\ ev' = [op |-> "parse", raised |-> FALSE, result |-> p.result,
                  empty |-> new_bytes(raw_data) = <<>>,
                  new_bytes |-> new_bytes(raw_data),
                  pending |-> reader.card_buffer,
                  gap |-> now - reader.last_read_time > CardTimeout,
                  closed |-> IF StartsGroup(new_bytes(raw_data))
                             THEN hist.group ELSE None]
        /\ UNCHANGED <<now, app, lj, db, timers>>

\* The same read when a statement of parse_card_data's try block raises.
ParseReportRaises(raw_data) ==
    LET p == parse_card_data(reader, raw_data, now, TRUE)
    IN  /\ reader' = p.reader
        /\ ev' = [op |-> "parse", raised |-> TRUE, result |-> p.result,
                  empty |-> new_bytes(raw_data) = <<>>,
                  new_bytes |-> new_bytes(raw_data),
                  pending |-> reader.card_buffer,
                  gap |-> now - reader.last_read_time > CardTimeout,
                  closed |-> None]
        /\ UNCHANGED <<now, app, lj, db, timers, hist>>

InitReader ==
    /\ now = 0
    /\ reader = ReaderInit
    /\ app = AppInit
    /\ lj = LabJackInit(TRUE)
    /\ db = DbInit
    /\ timers = {}
    /\ ev = [op |-> "init"]
    /\ hist = HistInit

NextReader ==
    \/ Tick
    \/ \E raw_data \in RawReports : ParseReport(raw_data)

SpecReader == InitReader /\ [][NextReader]_vars

NextReaderFault ==
    \/ Tick
    \/ \E raw_data \in RawReports : ParseReport(raw_data)
    \/ \E raw_data \in RawReports : ParseReportRaises(raw_data)

SpecReaderFault == InitReader /\ [][NextReaderFault]_vars

\* C5: when a group of reports is complete (the next report comes 500 ms or
\* more after the group's last), the reader has emitted exactly one card
\* identifier for the group, and it is the decimal string of the big-endian
\* integer formed by all the non-zero bytes of the group.
C5_OneIdentifierPerGroup ==
    (ev.op = "parse" /\ ev.closed # None) =>
        ev.closed.ids = <<str(raw_int(ev.closed.bytes))>>

\* C6: no card dictionary returned by parse_card_data, from a completed
\* buffer or from the except branch, carries a card_id that is empty or "0".
C6_NeverEmptyOrZero ==
    (ev.op = "parse" /\ ev.result # None) =>
        /\ ev.result.card_id # <<>>
        /\ ev.result.card_id # <<"0">>

\* the except branch has returned the identifier of a report of zero bytes
C6_Witness ==
    /\ ev.op = "parse"
    /\ ev.raised
    /\ ev.result # None
    /\ \A i \in DOMAIN ev.result.raw_bytes : ev.result.raw_bytes[i] = 0

\* ------------------------------------- the reader with its callback set
\* The time of the last unlock a scan of card_id caused, if any
LastUnlock(card_id) ==
    IF \E u \in hist.unlocks : u.card_id = card_id
    THEN CHOOSE u \in hist.unlocks : u.card_id = card_id
    ELSE None

\* One pass of CardReader.monitor_loop in which read_card_data returns a
\* report: parse_card_data, then on_card_read = handle_card_read on a result
MonitorRead(raw_data) ==
    LET p == parse_card_data(reader, raw_data, now, FALSE) IN
    /\ Len(p.reader.card_buffer) <= MaxGroupBytes
    /\ reader' = p.reader
    /\ IF p.result # None
       THEN LET card_id == p.result.card_id
                outcome == Decision(log_scan_event(db, card_id, "scan"),
                                    card_id, {})
            IN  /\ Len(db.scan_events) < 2 * MaxReads
                /\ Becomes(handle_card_read(World, card_id, now, {}))
                /\ ev' = [op |-> "read", card_id |-> card_id,
                          outcome |-> outcome, previous |-> LastUnlock(card_id)]
                /\ hist' = IF outcome = "unlock"
                           THEN [hist EXCEPT
                                   !.unlocks = {u \in @ : u.card_id # card_id}
                                               \cup {[card_id |-> card_id,
                                                      at |-> now]}]
                           ELSE hist
       ELSE /\ ev' = [op |-> "read", card_id |-> <<>>, outcome |-> "none",
                      previous |-> None]
            /\ UNCHANGED <<app, lj, db, timers, hist>>
    /\ UNCHANGED now

InitScan ==
    /\ now = 0
    /\ reader = ReaderInit
    /\ app = AppInit
    /\ lj = LabJackInit(TRUE)
    /\ db = EnrolledDb
    /\ timers = {}
    /\ ev = [op |-> "init"]
    /\ hist = HistInit

NextScan ==
    \/ Tick
    \/ \E timer \in timers : TimerExpiry(timer)
    \/ \E raw_data \in RawReports : MonitorRead(raw_data)

SpecScan == InitScan /\ [][NextScan]_vars

\* C4: of two frames with the same identifier closed less than
\* duplicate_timeout apart, at most one reaches handle_card_read and unlocks
\* the shear: a scan that unlocks comes duplicate_timeout or more after the
\* previous unlock by a scan of the same card.
C4_AtMostOneUnlock ==
    (ev.op = "read" /\ ev.outcome = "unlock" /\ ev.previous # None) =>
        now - ev.previous.at >= DuplicateTimeout


\* ------------------------------------------------- the Directory in use
\* handle_card_read called with a card identifier while the Directory
\* queries named in faults fail
ScanDirectory(card_id, faults) ==
    /\ Len(db.scan_events) + 2 <= MaxLog
    /\ Becomes(handle_card_read(World, card_id, now, faults))
    /\ ev' = [op |-> "scan", card_id |-> card_id, faults |-> faults]
    /\ UNCHANGED <<now, reader, hist>>

\* api_request_access
api_request_access(w, card_id) ==
    IF get_user(w.db, card_id, FALSE) # None THEN w
    ELSE IF get_pending_request(w.db, card_id, FALSE) # None THEN w
    ELSE [w EXCEPT !.db = add_pending_request(@, card_id).db]

RequestAccess(card_id) ==
    /\ Becomes(api_request_access(World, card_id))
    /\ ev' = [op |-> "request_access", card_id |-> card_id]
    /\ hist' = IF api_request_access(World, card_id).db # db
               THEN [hist EXCEPT !.removed = @ \ {card_id}] ELSE hist
    /\ UNCHANGED <<now, reader>>

\* approve_request: db.add_user is called with shift in the place of status;
\* remove_fails: db.remove_pending_request fails with a database error
approve_request(w, card_id, shift, remove_fails) ==
    LET added == add_user(w.db, card_id, shift) IN
    IF added.success
    THEN [w EXCEPT !.db = IF remove_fails THEN added.db
                          ELSE remove_pending_request(added.db, card_id)]
    ELSE w

ApproveRequest(card_id, shift, remove_fails) ==
    /\ Becomes(approve_request(World, card_id, shift, remove_fails))
    /\ ev' = [op |-> "approve_request", card_id |-> card_id]
    /\ hist' = IF add_user(db, card_id, shift).success
               THEN [hist EXCEPT !.removed = @ \ {card_id}] ELSE hist
    /\ UNCHANGED <<now, reader>>

\* deny_request
DenyRequest(card_id) ==
    /\ Becomes([World EXCEPT !.db = remove_pending_request(@, card_id)])
    /\ ev' = [op |-> "deny_request", card_id |-> card_id]
    /\ UNCHANGED <<now, reader, hist>>

\* api_remove_user called in a session of role user_role, for users of
\* access level 'user'
api_remove_user(w, card_id, user_role) ==
    IF user_role \notin {"admin", "manager"} THEN w
    ELSE IF get_user(w.db, card_id, FALSE) = None THEN w
    ELSE [w EXCEPT !.db = remove_user(@, card_id)]

RemoveUser(card_id, user_role) ==
    /\ Becomes(api_remove_user(World, card_id, user_role))
    /\ ev' = [op |-> "remove_user", card_id |-> card_id]
    /\ hist' = IF user_role \in {"admin", "manager"} /\ card_id \in DOMAIN db.users
               THEN [hist EXCEPT !.removed = @ \cup {card_id}] ELSE hist
    /\ UNCHANGED <<now, reader>>

\* database.update_user_status called for an enrolled card
UpdateUserStatus(card_id, status) ==
    /\ card_id \in DOMAIN db.users
    /\ Becomes([World EXCEPT !.db = update_user_status(@, card_id, status)])
    /\ ev' = [op |-> "update_user_status", card_id |-> card_id]
    /\ UNCHANGED <<now, reader, hist>>

Shifts == {"First"}
Statuses == {"active", "inactive"}
UserRoles == {"admin", "user"}

InitDir ==
    /\ now = 0
    /\ reader = ReaderInit
    /\ app = AppInit
    /\ lj = LabJackInit(TRUE)
    /\ db = EnrolledDb
    /\ timers = {}
    /\ ev = [op |-> "init"]
    /\ hist = HistInit

NextDir ==
    \/ \E card_id \in Cards, faults \in SUBSET DirectoryQueries :
           ScanDirectory(card_id, faults)
    \/ \E card_id \in Cards : RequestAccess(card_id)
    \/ \E card_id \in Cards, shift \in Shifts, remove_fails \in BOOLEAN :
           ApproveRequest(card_id, shift, remove_fails)
    \/ \E card_id \in Cards : DenyRequest(card_id)
    \/ \E card_id \in Cards, user_role \in UserRoles :
           RemoveUser(card_id, user_role)
    \/ \E card_id \in Cards, status \in Statuses :
           UpdateUserStatus(card_id, status)

SpecDir == InitDir /\ [][NextDir]_vars

\* The step is a scan of the card ev' names
ScanStep == ev'.op = "scan"

\* The outcome record the step has written last
Audited == db'.scan_events[Len(db'.scan_events)].result

\* The step has written exactly the "scan" row and one outcome row
AuditedScan(card_id, result) ==
    db'.scan_events = db.scan_events
                          \o <<[card_id |-> card_id, result |-> "scan"],
                               [card_id |-> card_id, result |-> result]>>

\* The step has not touched the lock: no unlock_shear, no lock_shear
ShearUntouched ==
    /\ app' = [app EXCEPT !.last_card_read = [card_id |-> ev'.card_id]]
    /\ lj' = lj
    /\ timers' = timers

\* The step has unlocked the shear for the user row it found
ShearUnlockedFor(card_id) ==
    /\ app'.shear_unlocked
    /\ app'.shear_unlock_user = db.users[card_id]
    /\ app'.shear_unlock_timestamp = [at |-> now]
    /\ app'.shear_unlock_timer \in timers'

\* C7: when no Directory query fails, a scan is decided Authorized if and
\* only if its identifier has a row in users at the time of the scan (also
\* when it has a pending request), PendingApproval if and only if it has no
\* users row and has a pending request, and Unknown otherwise; the outcome
\* row written is "unlock", "pending" or "unknown" respectively, the shear is
\* unlocked only for Authorized, and last_access is written only for
\* Authorized, on the row of the scanned card.
C7_Decision ==
    [][(ScanStep /\ ev'.faults = {}) =>
         LET card_id == ev'.card_id IN
         IF card_id \in DOMAIN db.users
         THEN /\ AuditedScan(card_id, "unlock")
              /\ ShearUnlockedFor(card_id)
              /\ db'.users = [db.users EXCEPT ![card_id].last_access = [at |-> now]]
              /\ db'.pending_requests = db.pending_requests
         ELSE /\ AuditedScan(card_id, IF card_id \in db.pending_requests
                                      THEN "pending" ELSE "unknown")
              /\ ShearUntouched
              /\ db'.users = db.users
              /\ db'.pending_requests = db.pending_requests]_vars

\* a card with a users row and a pending request has been scanned and
\* decided Authorized
C7_Witness ==
    /\ ev.op = "scan"
    /\ ev.faults = {}
    /\ ev.card_id \in DOMAIN db.users
    /\ ev.card_id \in db.pending_requests
    /\ db.scan_events[Len(db.scan_events)] =
           [card_id |-> ev.card_id, result |-> "unlock"]
    /\ app.shear_unlocked

\* A Directory query the scan makes fails: the user lookup, or the pending
\* lookup, which is made only when the user lookup returns no row
LookupFails ==
    \/ "get_user" \in ev'.faults
    \/ /\ "get_pending_request" \in ev'.faults
       /\ ev'.card_id \notin DOMAIN db.users

\* C8, as amended: a scan during which a Directory query fails is never
\* decided Authorized: the shear is not unlocked and no "unlock" row is
\* written.  It is decided Unknown, except that a card with a pending
\* request whose pending lookup succeeds (only the user lookup failed) is
\* decided PendingApproval.
C8_FailClosed ==
    [][(ScanStep /\ LookupFails) =>
         LET card_id == ev'.card_id IN
         /\ ShearUntouched
         /\ db'.users = db.users
         /\ AuditedScan(card_id,
                IF /\ "get_pending_request" \notin ev'.faults
                   /\ card_id \in db.pending_requests
                THEN "pending" ELSE "unknown")]_vars

\* the user lookup failed for the card of an enrolled user while the shear
\* was Locked: the scan is audited "unknown" and the shear stays Locked
C8_Witness ==
    /\ ev.op = "scan"
    /\ "get_user" \in ev.faults
    /\ ev.card_id \in DOMAIN db.users
    /\ db.scan_events[Len(db.scan_events)] =
           [card_id |-> ev.card_id, result |-> "unknown"]
    /\ ~app.shear_unlocked

\* C8, as stated: a scan during which the user lookup or the pending lookup
\* fails is treated as Unknown: "unknown" is audited, the shear is not
\* unlocked and no "unlock" row is written.
C8_AsStated ==
    [][(ScanStep /\ LookupFails) =>
         /\ ShearUntouched
         /\ AuditedScan(ev'.card_id, "unknown")]_vars

\* C9: removing a user changes no row of scan_events, and the next scan of
\* the removed card (with no enrolment or access request for it in between)
\* is decided Unknown, not Authorized and not PendingApproval, and does not
\* unlock the shear.
C9_RemovedIsUnknown ==
    [][/\ ev'.op = "remove_user" => db'.scan_events = db.scan_events
       /\ (ScanStep /\ ev'.card_id \in hist.removed) =>
              /\ AuditedScan(ev'.card_id, "unknown")
              /\ ShearUntouched
              /\ db'.users = db.users]_vars

\* a user who unlocked the shear was removed while it was Unlocked; the
\* "unlock" row is still there and the next scan of the card is "unknown"
C9_Witness ==
    /\ ev.op = "scan"
    /\ ev.faults = {}
    /\ ev.card_id \in hist.removed
    /\ app.shear_unlocked
    /\ db.scan_events[2] = [card_id |-> ev.card_id, result |-> "unlock"]
    /\ db.scan_events[Len(db.scan_events)] =
           [card_id |-> ev.card_id, result |-> "unknown"]

\* C10: a scan of a card whose users row has a status other than 'active'
\* is never decided Authorized and never unlocks the shear: it is audited as
\* the scan of a card with no users row would be.
C10_DeactivatedNotAuthorized ==
    [][(/\ ScanStep
        /\ ev'.card_id \in DOMAIN db.users
        /\ db.users[ev'.card_id].status # "active") =>
           /\ Audited # "unlock"
           /\ ShearUntouched]_vars

\* ------------------------------------------------------ the audit trail
\* database.reset_database: the three tables are dropped and init_db creates
\* them again, empty
reset_database(d) == DbInit

\* database.remove_all_pending_requests: DELETE FROM pending_requests
remove_all_pending_requests(d) == [d EXCEPT !.pending_requests = {}]

\* api_reset_database
ResetDatabase ==
    /\ Becomes([World EXCEPT !.db = reset_database(@)])
    /\ ev' = [op |-> "reset_database"]
    /\ UNCHANGED <<now, reader, hist>>

\* api_factory_reset: the session log is emptied and the database reset
FactoryReset ==
    /\ Becomes([World EXCEPT !.db = reset_database(@)])
    /\ ev' = [op |-> "factory_reset"]
    /\ UNCHANGED <<now, reader, hist>>

\* purge_pending_requests
PurgePending ==
    /\ Becomes([World EXCEPT !.db = remove_all_pending_requests(@)])
    /\ ev' = [op |-> "remove_all_pending_requests"]
    /\ UNCHANGED <<now, reader, hist>>

\* api_deny_access_request: the request is removed and 'denied' is audited
api_deny_access_request(w, card_id) ==
    IF get_pending_request(w.db, card_id, FALSE) = None THEN w
    ELSE [w EXCEPT !.db = log_scan_event(remove_pending_request(@, card_id),
                                         card_id, "denied")]

DenyAccessRequest(card_id) ==
    /\ Len(db.scan_events) + 1 <= MaxLog
    /\ Becomes(api_deny_access_request(World, card_id))
    /\ ev' = [op |-> "deny_access_request", card_id |-> card_id]
    /\ UNCHANGED <<now, reader, hist>>

NextAudit ==
    \/ \E card_id \in Cards : ScanDirectory(card_id, {})
    \/ \E card_id \in Cards : RequestAccess(card_id)
    \/ \E card_id \in Cards, shift \in Shifts :
           ApproveRequest(card_id, shift, FALSE)
    \/ \E card_id \in Cards : DenyRequest(card_id)
    \/ \E card_id \in Cards : DenyAccessRequest(card_id)
    \/ \E card_id \in Cards, user_role \in UserRoles :
           RemoveUser(card_id, user_role)
    \/ PurgePending
    \/ ResetDatabase
    \/ FactoryReset

SpecAudit == InitDir /\ [][NextAudit]_vars

\* the rows of scan_events before the step are still there after it, unchanged
RowsKept ==
    /\ Len(db'.scan_events) >= Len(db.scan_events)
    /\ SubSeq(db'.scan_events, 1, Len(db.scan_events)) = db.scan_events

\* C11: scan_events is append-only across scans, approvals, denials, user
\* removal, purge of pending requests, database reset and factory reset: no
\* step modifies or deletes a row written before it.
C11_AuditAppendOnly == [][RowsKept]_vars
\* ------------------------------------------- the decision engine's paths
\* handle_card_read when a statement of its try block raises after the
\* 'scan' row is written: before the user lookup (raises_at = "lookup") or
\* after the decision has taken effect and before its outcome row is
\* written (raises_at = "outcome").  The except clause audits 'error'.
handle_card_read_raising(w, card_id, t, faults, raises_at) ==
    LET w1 == [w EXCEPT !.app.last_card_read = [card_id |-> card_id],
                        !.db = log_scan_event(@, card_id, "scan")]
        user == get_user(w1.db, card_id, "get_user" \in faults)
        w2 == IF raises_at = "outcome" /\ Decision(w1.db, card_id, faults) = "unlock"
              THEN unlock_shear(w1, user, t)
              ELSE w1
    IN  [w2 EXCEPT !.db = log_scan_event(@, card_id, "error")]

ScanRaises(card_id, faults, raises_at) ==
    /\ Len(db.scan_events) + 2 <= MaxLog
    /\ Becomes(handle_card_read_raising(World, card_id, now, faults, raises_at))
    /\ ev' = [op |-> "scan_error", card_id |-> card_id, faults |-> faults]
    /\ UNCHANGED <<now, reader, hist>>

NextDecide ==
    \/ \E card_id \in Cards, faults \in SUBSET DirectoryQueries :
           ScanDirectory(card_id, faults)
    \/ \E card_id \in Cards, faults \in SUBSET DirectoryQueries,
          raises_at \in {"lookup", "outcome"} :
           ScanRaises(card_id, faults, raises_at)
    \/ \E card_id \in Cards : RequestAccess(card_id)
    \/ \E card_id \in Cards, shift \in Shifts :
           ApproveRequest(card_id, shift, FALSE)
    \/ \E card_id \in Cards, user_role \in UserRoles :
           RemoveUser(card_id, user_role)

SpecDecide == InitDir /\ [][NextDecide]_vars

\* The step is a call of handle_card_read
DecisionStep == ev'.op \in {"scan", "scan_error"}

UnlockStep ==
    \/ ev'.op = "scan" /\ ev'.outcome = "unlock"
    \/ ev'.op = "authorized_unlock"

\* What unlock_shear leaves of the logical state, at the time `now` of the
\* call: Unlocked, actor and time recorded, cycles 0, the one pending timer
\* due a full unlock_timeout later, one status-change event appended
UnlockedAfresh ==
    LET timer == [due |-> now + app.SHEAR_SETTINGS.unlock_timeout] IN
    /\ app'.shear_unlocked
    /\ app'.shear_unlock_user # None
    /\ app'.shear_unlock_timestamp = [at |-> now]
    /\ app'.shear_cycles = 0
    /\ app'.shear_unlock_timer = timer
    /\ timers' = {timer}
    /\ Cardinality({i \in DOMAIN ev'.card_scan_events :
                       ev'.card_scan_events[i].type = "status_change"}) = 1
    /\ [type |-> "status_change", shear_unlocked |-> TRUE]
           \in {ev'.card_scan_events[i] : i \in DOMAIN ev'.card_scan_events}

ShearPin == app.SHEAR_SETTINGS.shear_output_pin

labjack_control_set_digital_output(w, channel, state) ==
    IF ~w.lj.connected THEN w
    ELSE IF channel \in DOMAIN w.app.output_modes
            /\ w.app.output_modes[channel] = "manual"
    THEN [w EXCEPT !.app.manual_output_states[channel] = state,
                   !.lj = set_digital_output(@, channel, state)]
    ELSE [w EXCEPT !.lj = set_digital_output(@, channel, state)]

\* the channels a control request can name: the outputs and one input
RequestChannels == OutputChannels \cup {InputChannels[1]}

SetDigitalOutput(channel, state) ==
    /\ Becomes(labjack_control_set_digital_output(World, channel, state))
    /\ ev' = [op |-> "set_digital_output", channel |-> channel,
              state |-> state,
              mode |-> IF channel \in DOMAIN app.output_modes
                       THEN app.output_modes[channel] ELSE "auto"]
    /\ UNCHANGED <<now, reader, hist>>

\* time stands still: the timer an unlock starts stays pending
NextOutputs ==
    \/ ScanCard(CardA, {})
    \/ ManualLock
    \/ \E current_inputs \in InputSamples : MonitorPoll(current_inputs)
    \/ MonitorStateLogRaises
    \/ \E channel \in OutputChannels, mode \in {"auto", "manual"} :
           SetOutputMode(channel, mode)
    \/ \E channel \in RequestChannels, state \in BOOLEAN :
           SetDigitalOutput(channel, state)

SpecOutputs == Init /\ [][NextOutputs]_vars

\* the logical ShearState: locked flag, actor, time, timer and cycles
ShearState ==
    [shear_unlocked |-> app.shear_unlocked,
     shear_unlock_user |-> app.shear_unlock_user,
     shear_unlock_timestamp |-> app.shear_unlock_timestamp,
     shear_unlock_timer |-> app.shear_unlock_timer,
     shear_cycles |-> app.shear_cycles,
     timers |-> timers]

C15_SetOutputOnlyInManual ==
    [][(ev'.op = "set_digital_output" /\ ev'.mode = "auto") =>
           lj'.output_states = lj.output_states]_vars

\* --------------------------------------------------------- the settings
\* The bounds api_save_settings puts on unlock_timeout, and the default of
\* SHEAR_SETTINGS, in seconds
MinTimeout == 10
MaxTimeout == 3600
DefaultTimeout == 120

\* A field of the request body: absent, or present with a value
Absent == [absent |-> TRUE]
Field(values) == {Absent} \cup {[value |-> v] : v \in values}

\* The bodies a request carries.  An unlock_timeout that int() cannot
\* convert is the field [invalid |-> TRUE]
SettingsRequests ==
    [unlock_timeout : Field({MinTimeout - 1, MinTimeout, MaxTimeout + 1})
                          \cup {[invalid |-> TRUE]},
     shear_output_pin : Field({"FIO7", "FIO4"}),
     motion_input_pin : Field({"FIO5", "FIO6"}),
     error_action : Field({"unlock", "lock", "maintain", "open"})]

\* api_save_settings: the fields are taken in turn, each stored as soon as
\* it is accepted; the first refused one ends the request with status 400
\* (500 when int() raises).  The result is the settings and the status.
save_unlock_timeout(r, data) ==
    IF r.status # 200 \/ data.unlock_timeout = Absent THEN r
    ELSE IF data.unlock_timeout = [invalid |-> TRUE]
    THEN [r EXCEPT !.status = 500]
    ELSE IF MinTimeout <= data.unlock_timeout.value
            /\ data.unlock_timeout.value <= MaxTimeout
    THEN [r EXCEPT !.settings.unlock_timeout = data.unlock_timeout.value]
    ELSE [r EXCEPT !.status = 400]

save_shear_output_pin(r, data) ==
    IF r.status # 200 \/ data.shear_output_pin = Absent THEN r
    ELSE IF data.shear_output_pin.value \in {"FIO6", "FIO7"}
    THEN [r EXCEPT !.settings.shear_output_pin = data.shear_output_pin.value]
    ELSE [r EXCEPT !.status = 400]

save_motion_input_pin(r, data) ==
    IF r.status # 200 \/ data.motion_input_pin = Absent THEN r
    ELSE IF data.motion_input_pin.value \in {"FIO4", "FIO5"}
    THEN [r EXCEPT !.settings.motion_input_pin = data.motion_input_pin.value]
    ELSE [r EXCEPT !.status = 400]

save_error_action(r, data) ==
    IF r.status # 200 \/ data.error_action = Absent THEN r
    ELSE IF data.error_action.value \in {"unlock", "lock", "maintain"}
    THEN [r EXCEPT !.settings.error_action = data.error_action.value]
    ELSE [r EXCEPT !.status = 400]

api_save_settings(settings, data) ==
    save_error_action(
        save_motion_input_pin(
            save_shear_output_pin(
                save_unlock_timeout(
                    [settings |-> settings, status |-> 200], data),
                data),
            data),
        data)

UpdateSettings(data) ==
    /\ app' = [app EXCEPT !.SHEAR_SETTINGS =
                              api_save_settings(@, data).settings]
    /\ ev' = [op |-> "save_settings",
              status |-> api_save_settings(app.SHEAR_SETTINGS, data).status]
    /\ UNCHANGED <<now, reader, lj, db, timers, hist>>

\* the controller with the default settings of app.py, timeout in seconds
InitSettings ==
    /\ now = 0
    /\ reader = ReaderInit
    /\ app = [AppInit EXCEPT !.SHEAR_SETTINGS.unlock_timeout = DefaultTimeout]
    /\ \E connected \in BOOLEAN : lj = LabJackInit(connected)
    /\ db = EnrolledDb
    /\ timers = {}
    /\ ev = [op |-> "init"]
    /\ hist = HistInit

\* time stands still: the timer an unlock starts stays pending
NextSettings ==
    \/ \E data \in SettingsRequests : UpdateSettings(data)
    \/ EmergencyUnlock
    \/ ScanCard(CardA, {})
    \/ ManualLock
    \/ \E mode \in {"auto", "manual"} : SetOutputMode(ShearPin, mode)

SpecSettings == InitSettings /\ [][NextSettings]_vars

\* C16: an emergency-unlock call does what error_action says and nothing
\* else: 'unlock' leaves the shear Unlocked, 'lock' leaves what lock_shear
\* leaves, 'maintain' changes neither ShearState nor any output.
C16_ErrorActionHonored ==
    [][ev'.op = "emergency_unlock" =>
         /\ app.SHEAR_SETTINGS.error_action = "unlock" =>
                app'.shear_unlocked
         /\ app.SHEAR_SETTINGS.error_action = "lock" =>
                /\ app' = lock_shear(World).app
                /\ lj' = lock_shear(World).lj
                /\ timers' = lock_shear(World).timers
         /\ app.SHEAR_SETTINGS.error_action = "maintain" =>
                /\ ShearState' = ShearState
                /\ lj' = lj]_vars

\* C17: a request with a timeout outside MinTimeout..MaxTimeout, an output
\* or motion channel that is not one of the two designated pins, or an
\* unknown error_action is answered with an error status, and every setting
\* is then what it was before the request.
C17_RejectedLeavesSettings ==
    [][ev'.op = "save_settings" =>
         /\ app'.SHEAR_SETTINGS.unlock_timeout
                \in {app.SHEAR_SETTINGS.unlock_timeout}
                    \cup MinTimeout..MaxTimeout
         /\ app'.SHEAR_SETTINGS.shear_output_pin \in {"FIO6", "FIO7"}
         /\ app'.SHEAR_SETTINGS.motion_input_pin \in {"FIO4", "FIO5"}
         /\ app'.SHEAR_SETTINGS.error_action \in {"unlock", "lock", "maintain"}
         /\ ev'.status # 200 =>
                app'.SHEAR_SETTINGS = app.SHEAR_SETTINGS]_vars

\* ------------------------------------------------- reading the inputs
\* LabJackU3.floating_inputs_as_low as __init__ sets it; no caller of
\* set_floating_input_mode exists
floating_inputs_as_low == TRUE

\* What the device gives for one channel in one poll: BitStateRead raises,
\* or three readings are taken
ChannelReads ==
    {[raises |-> TRUE, readings |-> <<FALSE, FALSE, FALSE>>]}
        \cup {[raises |-> FALSE, readings |-> r] : r \in [1..3 -> BOOLEAN]}

PollReads == [1..Len(InputChannels) -> ChannelReads]

\* the three readings of a channel disagree
Floating(readings) == Cardinality({readings[k] : k \in 1..3}) > 1

StableState(readings, floating_high) ==
    IF Floating(readings) THEN floating_high ELSE readings[1]

\* read_digital_inputs with floating inputs taken as HIGH
read_digital_inputs_floating_high(l, reads) ==
    IF ~l.connected THEN <<>>
    ELSE IF \E i \in DOMAIN reads : reads[i].raises THEN <<>>
    ELSE [i \in DOMAIN reads |-> StableState(reads[i].readings, TRUE)]

\* LabJackU3.read_digital_inputs: the stable state per input channel, or the
\* empty result when the device is not connected or any read raises (one
\* try statement spans the loop over the channels).  stable_input_readings
\* is written here and read nowhere; it is left out.
read_digital_inputs(l, reads) ==
    IF ~l.connected THEN <<>>
    ELSE IF \E i \in DOMAIN reads : reads[i].raises THEN <<>>
    ELSE [i \in DOMAIN reads |->
              StableState(reads[i].readings, ~floating_inputs_as_low)]

\* what a poll saw on a channel
ReadAs(read) ==
    IF read.raises THEN "error"
    ELSE IF Floating(read.readings) THEN "floating"
    ELSE IF read.readings[1] THEN "high" ELSE "low"

\* One pass of LabJackU3.monitor_loop up to its inner `while True`, from
\* the readings of the device
MonitorPollReads(reads) ==
    LET current_inputs == read_digital_inputs(lj, reads) IN
    /\ lj.running /\ lj.connected
    /\ lj.pc = "poll"
    /\ app.shear_cycles < MaxCycles
    /\ Becomes([(IF current_inputs = <<>> THEN World
                 ELSE check_input_changes(World, current_inputs, 1, now))
                    EXCEPT !.lj.pc = "log_states"])
    /\ ev' = [op |-> "poll_reads",
              reads |-> [i \in DOMAIN reads |-> ReadAs(reads[i])],
              input_changes |->
                  IF current_inputs = <<>> THEN <<>>
                  ELSE check_input_changes(World, current_inputs, 1,
                                           now).input_changes,
              motion |-> IF current_inputs = <<>> THEN "none"
                         ELSE MotionEdge(current_inputs)]
    /\ hist' = IF current_inputs # <<>>
                  /\ MotionEdge(current_inputs) = "rising"
                  /\ app.shear_unlocked
               THEN Superseded ELSE hist
    /\ UNCHANGED <<now, reader>>

NextMonitor ==
    \/ Tick
    \/ \E timer \in timers : TimerExpiry(timer)
    \/ ScanCard(CardA, {})
    \/ ManualLock
    \/ \E reads \in PollReads : MonitorPollReads(reads)
    \/ MonitorStateLogRaises

SpecMonitor == Init /\ [][NextMonitor]_vars

\* C18: a poll in which the three readings of a channel disagree, and no
\* read raises, leaves LOW as the last state of that channel; when the
\* channel is the motion channel the poll yields no rising change event,
\* restarts no expiry timer and counts no cycle.
C18_FloatingReadsLow ==
    [][ev'.op = "poll_reads" =>
         \A i \in DOMAIN ev'.reads :
             ev'.reads[i] = "floating" =>
                 /\ (\A j \in DOMAIN ev'.reads : ev'.reads[j] # "error") =>
                        ~lj'.last_input_states[i]
                 /\ i = MotionIndex =>
                        /\ ev'.motion # "rising"
                        /\ ShearState' = ShearState]_vars

\* the motion channel was HIGH, the shear Unlocked with a cycle counted, and
\* a poll found the channel floating: its falling change event was handled
C18_Witness ==
    /\ ev.op = "poll_reads"
    /\ ev.reads[MotionIndex] = "floating"
    /\ ev.motion = "falling"
    /\ app.shear_unlocked
    /\ app.shear_cycles >= 1
    /\ timers # {}
    /\ ~lj.last_input_states[MotionIndex]

\* C19: in a poll in which the read of one channel raises, every channel
\* that was read has its stable reading as its last state afterwards.
C19_ReadErrorIsolated ==
    [][ev'.op = "poll_reads" =>
         \A i \in DOMAIN ev'.reads :
             ev'.reads[i] \in {"high", "low"} =>
                 lj'.last_input_states[i] = (ev'.reads[i] = "high")]_vars

\* -------------------------------------------- malformed and empty reports
\* C20: a call of parse_card_data ends with a return, never with an
\* exception: when its try block raises, the card dictionary returned has the
\* upper-case hex of the bytes of the report as its identifier; otherwise a
\* report without non-zero bytes returns nothing and leaves the reader as it
\* was, and a report with non-zero bytes returns a card or changes the reader.
C20_ParseNeverRaises ==
    [][ev'.op = "parse" =>
         IF ev'.raised
         THEN /\ ev'.result # None
              /\ Len(ev'.result.raw_bytes) = ReportLen
              /\ ev'.result.card_id = hex_upper(ev'.result.raw_bytes)
              /\ Len(ev'.result.card_id) = 2 * ReportLen
         ELSE (ev'.result = None /\ reader' = reader) <=> ev'.empty]_vars

\* a report with non-zero bytes too few for a frame has returned nothing and
\* its bytes are in the buffer
C20_Witness ==
    /\ ev.op = "parse"
    /\ ~ev.raised /\ ~ev.empty
    /\ ev.result = None
    /\ reader.card_buffer # <<>>
    /\ Len(reader.card_buffer) < MinFrameBytes

\* ---------------------------------------------------- the event stream
\* card_scan_events is read only by the generators of card_events; the
\* specifications above have no such generator and leave the queue out.
\* Here app carries the queue and the generators: each is closed, about to
\* test the queue ("check"), about to pop it ("pop"), or suspended at the
\* yield with the popped event ("yield").
MaxEvents == 4
MaxStreams == 2

Streams == 1..MaxStreams

AppStreaming ==
    AppInit @@ [card_scan_events |-> <<>>,
                event_streams |-> [s \in Streams |->
                                      [pc |-> "closed", event |-> None,
                                       last_heartbeat |-> 0]]]

\* the events published so far and the events written to a client so far
HistStreaming ==
    HistInit @@ [published |-> <<>>, delivered |-> <<>>, published_at |-> None]

\* a handler returns: its state is stored and its events are in the queue
BecomesPublishing(w) ==
    /\ app' = [w.app EXCEPT !.card_scan_events = @ \o w.card_scan_events]
    /\ lj' = w.lj
    /\ db' = w.db
    /\ timers' = w.timers
    /\ hist' = [hist EXCEPT !.published = @ \o w.card_scan_events,
                            !.published_at = IF w.card_scan_events = <<>>
                                             THEN @ ELSE [at |-> now]]

\* handle_card_read, its events appended to the queue
PublishScan(card_id) ==
    LET w == handle_card_read(World, card_id, now, {}) IN
    /\ Len(db.scan_events) + 2 <= MaxLog
    /\ Len(hist.published) + Len(w.card_scan_events) <= MaxEvents
    /\ BecomesPublishing(w)
    /\ ev' = [op |-> "scan", card_id |-> card_id]
    /\ UNCHANGED <<now, reader>>

\* api_lock_shear, its status event appended to the queue
PublishLock ==
    /\ Len(hist.published) + 1 <= MaxEvents
    /\ BecomesPublishing(lock_shear(World))
    /\ ev' = [op |-> "manual_lock"]
    /\ UNCHANGED <<now, reader>>

\* GET /api/card-events: a client opens a stream
Subscribe(s) ==
    /\ app.event_streams[s].pc = "closed"
    /\ app' = [app EXCEPT !.event_streams[s] =
                              [pc |-> "check", event |-> None,
                               last_heartbeat |-> now]]
    /\ ev' = [op |-> "subscribe", stream |-> s]
    /\ UNCHANGED <<now, reader, lj, db, timers, hist>>

\* event_stream: `if card_scan_events`
StreamCheck(s) ==
    /\ app.event_streams[s].pc = "check"
    /\ app.card_scan_events # <<>>
    /\ app' = [app EXCEPT !.event_streams[s].pc = "pop"]
    /\ ev' = [op |-> "stream_check", stream |-> s]
    /\ UNCHANGED <<now, reader, lj, db, timers, hist>>

\* event_stream: `card_scan_events.pop(0)`; on an empty list it raises
\* IndexError and `except Exception` ends the generator
StreamPop(s) ==
    /\ app.event_streams[s].pc = "pop"
    /\ IF app.card_scan_events = <<>>
       THEN app' = [app EXCEPT !.event_streams[s] =
                                   [pc |-> "closed", event |-> None,
                                    last_heartbeat |-> 0]]
       ELSE app' = [app EXCEPT !.card_scan_events = Tail(@),
                               !.event_streams[s].pc = "yield",
                               !.event_streams[s].event =
                                   [event |-> Head(app.card_scan_events)]]
    /\ ev' = [op |-> "stream_pop", stream |-> s]
    /\ UNCHANGED <<now, reader, lj, db, timers, hist>>

\* event_stream: the yielded event is written to the client and the
\* generator resumes
StreamYield(s) ==
    /\ app.event_streams[s].pc = "yield"
    /\ app' = [app EXCEPT !.event_streams[s] =
                              [pc |-> "check", event |-> None,
                               last_heartbeat |-> now]]
    /\ hist' = [hist EXCEPT !.delivered =
                                Append(@, app.event_streams[s].event.event)]
    /\ ev' = [op |-> "stream_yield", stream |-> s]
    /\ UNCHANGED <<now, reader, lj, db, timers>>

\* the client has gone: the write of the yielded event fails and the
\* generator is closed at its yield (GeneratorExit)
StreamDisconnect(s) ==
    /\ app.event_streams[s].pc = "yield"
    /\ app' = [app EXCEPT !.event_streams[s] =
                              [pc |-> "closed", event |-> None,
                               last_heartbeat |-> 0]]
    /\ ev' = [op |-> "stream_disconnect", stream |-> s]
    /\ UNCHANGED <<now, reader, lj, db, timers, hist>>

InitStreaming ==
    /\ now = 0
    /\ reader = ReaderInit
    /\ app = AppStreaming
    /\ lj = LabJackInit(TRUE)
    /\ db = EnrolledDb
    /\ timers = {}
    /\ ev = [op |-> "init"]
    /\ hist = HistStreaming

NextStreaming ==
    \/ \E card_id \in Cards : PublishScan(card_id)
    \/ PublishLock
    \/ \E s \in Streams :
           \/ Subscribe(s)
           \/ StreamCheck(s)
           \/ StreamPop(s)
           \/ StreamYield(s)
           \/ StreamDisconnect(s)

SpecStreaming == InitStreaming /\ [][NextStreaming]_vars

\* the events the generators hold at their yield, in the order of the streams
RECURSIVE Yielding(_)
Yielding(s) ==
    IF s > MaxStreams THEN <<>>
    ELSE (IF app.event_streams[s].pc = "yield"
          THEN <<app.event_streams[s].event.event>> ELSE <<>>)
         \o Yielding(s + 1)

IsPrefix(a, b) == Len(a) <= Len(b) /\ SubSeq(b, 1, Len(a)) = a

\* C21: no published event is lost and the events are written to clients in
\* the order of their publication: the events written so far are the first
\* events published, and every other published event is still in the queue
\* or held by a generator that is about to write it.
C21_DeliveredInOrder ==
    /\ IsPrefix(hist.delivered, hist.published)
    /\ Len(hist.published) =
           Len(hist.delivered) + Len(Yielding(1)) + Len(app.card_scan_events)

\* ------------------------------------------- handle_card_read step by step
\* The reader thread inside its on_card_read callback: the statements of
\* handle_card_read in the order of the source, one action per audit write,
\* decision, unlock and publication.  `rows` counts the audit rows and
\* `events` collects the broadcast events this call has produced so far.
CallbackIdle ==
    [pc |-> "idle", card_id |-> <<>>, outcome |-> "none", rows |-> 0,
     events |-> <<>>]

ReaderCalling == ReaderInit @@ [callback |-> CallbackIdle]

\* lines 161-168: last_card_read, session log, the 'scan' row
HandlerAuditScan(card_id) ==
    /\ reader.callback.pc = "idle"
    /\ Len(db.scan_events) + 2 <= MaxLog
    /\ Len(hist.published) + 2 <= MaxEvents
    /\ app' = [app EXCEPT !.last_card_read = [card_id |-> card_id]]
    /\ db' = log_scan_event(db, card_id, "scan")
    /\ reader' = [reader EXCEPT !.callback =
                      [pc |-> "lookup", card_id |-> card_id,
                       outcome |-> "none", rows |-> 1, events |-> <<>>]]
    /\ ev' = [op |-> "handler_audit_scan", card_id |-> card_id]
    /\ UNCHANGED <<now, lj, timers, hist>>

\* lines 171-172 and 204-205: get_user, then get_pending_request
HandlerLookup ==
    LET outcome == Decision(db, reader.callback.card_id, {}) IN
    /\ reader.callback.pc = "lookup"
    /\ reader' = [reader EXCEPT !.callback.outcome = outcome,
                                !.callback.pc = IF outcome = "unlock"
                                                THEN "unlock" ELSE "audit"]
    /\ ev' = [op |-> "handler_lookup"]
    /\ UNCHANGED <<now, app, lj, db, timers, hist>>

\* line 174: unlock_shear, which publishes the status_change event
HandlerUnlock ==
    LET card_id == reader.callback.card_id
        w == unlock_shear(World, get_user(db, card_id, FALSE), now)
    IN  /\ reader.callback.pc = "unlock"
        /\ BecomesPublishing(w)
        /\ reader' = [reader EXCEPT !.callback.pc = "audit",
                                    !.callback.events = @ \o w.card_scan_events]
        /\ ev' = [op |-> "handler_unlock"]
        /\ UNCHANGED now

\* lines 177-180, 207 and 224: the outcome row (after update_user_last_access
\* for an unlock)
HandlerAuditOutcome ==
    LET card_id == reader.callback.card_id
        outcome == reader.callback.outcome
    IN  /\ reader.callback.pc = "audit"
        /\ db' = log_scan_event(
                     IF outcome = "unlock"
                     THEN update_user_last_access(db, card_id, now) ELSE db,
                     card_id, outcome)
        /\ reader' = [reader EXCEPT !.callback.pc = "publish",
                                    !.callback.rows = @ + 1]
        /\ ev' = [op |-> "handler_audit_outcome"]
        /\ UNCHANGED <<now, app, lj, timers, hist>>

\* lines 183-190, 208-214 and 227-234: the card_scan event
HandlerPublish ==
    LET outcome == reader.callback.outcome
        event == [type |-> "card_scan",
                  status |-> IF outcome = "unlock" THEN "authorized"
                             ELSE IF outcome = "pending"
                             THEN "authorization_pending" ELSE "unknown"]
    IN  /\ reader.callback.pc = "publish"
        /\ app' = [app EXCEPT !.card_scan_events = Append(@, event)]
        /\ hist' = [hist EXCEPT !.published = Append(@, event)]
        /\ reader' = [reader EXCEPT !.callback.pc = "idle",
                                    !.callback.events = Append(@, event)]
        /\ ev' = [op |-> "handler_publish"]
        /\ UNCHANGED <<now, lj, db, timers>>

\* api_request_access on a request thread
RequestAccessMeanwhile(card_id) ==
    /\ db' = api_request_access(World, card_id).db
    /\ ev' = [op |-> "request_access", card_id |-> card_id]
    /\ UNCHANGED <<now, reader, app, lj, timers, hist>>

InitHandler ==
    /\ now = 0
    /\ reader = ReaderCalling
    /\ app = AppStreaming
    /\ lj = LabJackInit(TRUE)
    /\ db = EnrolledDb
    /\ timers = {}
    /\ ev = [op |-> "init"]
    /\ hist = HistStreaming

NextHandler ==
    \/ Tick
    \/ \E card_id \in Cards : HandlerAuditScan(card_id)
    \/ HandlerLookup
    \/ HandlerUnlock
    \/ HandlerAuditOutcome
    \/ HandlerPublish
    \/ \E card_id \in Cards : RequestAccessMeanwhile(card_id)
    \/ PublishLock

SpecHandler == InitHandler /\ [][NextHandler]_vars

\* C22: while handle_card_read runs and after it has returned, a broadcast
\* event of the scan is published only once both audit rows of the scan,
\* 'scan' and its outcome, are written.
C22_AuditBeforeBroadcast ==
    reader.callback.events # <<>> => reader.callback.rows = 2

\* ------------------------------------------------ stale bytes, duplicates
\* The last parse found bytes pending whose last contribution was more than
\* card_timeout old, and brought non-zero bytes
StaleAtParse ==
    /\ ev.op = "parse" /\ ~ev.raised
    /\ ev.new_bytes # <<>>
    /\ ev.pending # <<>>
    /\ ev.gap

\* C23: when a report with non-zero bytes finds pending bytes whose last
\* contribution is more than card_timeout old, the pending bytes are closed
\* as a frame: the decimal identifier of the pending bytes is returned, or
\* it is the identifier the duplicate window is holding.
C23_StaleBufferClosed ==
    StaleAtParse =>
        \/ /\ ev.result # None
           /\ ev.result.card_id = str(raw_int(ev.pending))
        \/ /\ reader.last_processed_card # None
           /\ reader.last_processed_card.card_id = str(raw_int(ev.pending))

\* C24: after a report with non-zero bytes that came more than card_timeout
\* after the previous contribution, the reader holds and has returned no
\* byte buffered before: the buffer is the new bytes, or the returned frame
\* is the new bytes and the buffer is empty.
C24_NoStaleBytes ==
    StaleAtParse =>
        IF ev.result = None
        THEN reader.card_buffer = ev.new_bytes
        ELSE /\ ev.result.raw_bytes = ev.new_bytes
             /\ reader.card_buffer = <<>>

\* bytes left by one scan were pending and have been dropped: the buffer
\* holds only the bytes of the report that came after the gap
C24_Witness ==
    /\ StaleAtParse
    /\ Len(ev.pending) >= 2
    /\ reader.card_buffer = ev.new_bytes
    /\ Len(reader.card_buffer) < Len(ev.pending)

\* the frame a report completes: the bytes process_card_buffer is called on
FrameAt(r, nb, t) ==
    (IF t - r.last_read_time > CardTimeout THEN <<>> ELSE r.card_buffer) \o nb

\* C25: a closed frame is suppressed exactly when its identifier is the one
\* most recently emitted and less than duplicate_timeout has passed since;
\* a suppressed frame leaves the remembered identifier and its time as they
\* were, an emitted frame is remembered with the time of its emission.
C25_DuplicateSuppression ==
    [][(/\ ev'.op = "parse" /\ ~ev'.raised
        /\ Len(FrameAt(reader, ev'.new_bytes, now)) >= MinFrameBytes
        /\ ev'.new_bytes # <<>>) =>
         LET card_id == str(raw_int(FrameAt(reader, ev'.new_bytes, now)))
             last == reader.last_processed_card
             duplicate == /\ last # None
                          /\ last.card_id = card_id
                          /\ now - last.timestamp < DuplicateTimeout
         IN  /\ ev'.result = None <=> duplicate
             /\ duplicate => reader'.last_processed_card = last
             /\ ~duplicate =>
                    /\ ev'.result.card_id = card_id
                    /\ reader'.last_processed_card =
                           [card_id |-> card_id, timestamp |-> now]]_vars

\* a frame of the identifier emitted some time before, within the window,
\* has been suppressed: nothing was returned and the remembered time is still
\* that of the emission
C25_Witness ==
    /\ ev.op = "parse" /\ ~ev.raised
    /\ ev.result = None
    /\ Len(reader.card_buffer) >= MinFrameBytes
    /\ reader.last_processed_card # None
    /\ reader.last_processed_card.card_id = str(raw_int(reader.card_buffer))
    /\ reader.last_processed_card.timestamp < now

\* ------------------------------------------------------ edges and polling
\* the change events a pass of the monitor emitted for input channel i
ChangesOf(input_changes, i) ==
    SelectSeq(input_changes, LAMBDA c : c.channel = InputChannels[i])

\* C26: in a poll that returns readings, a channel gets a change event if
\* and only if its stable reading differs from the last state recorded for
\* it, the event carries the new reading, and the reading is recorded; a
\* channel read as before gets no event.
C26_EdgeTriggered ==
    [][(/\ ev'.op = "poll_reads"
        /\ \A j \in DOMAIN ev'.reads : ev'.reads[j] # "error") =>
         \A i \in DOMAIN ev'.reads :
             LET stable == ev'.reads[i] = "high" IN
             /\ lj'.last_input_states[i] = stable
             /\ ChangesOf(ev'.input_changes, i) =
                    IF stable # lj.last_input_states[i]
                    THEN <<[channel |-> InputChannels[i], state |-> stable]>>
                    ELSE <<>>]_vars

\* a poll has read the motion channel HIGH as the poll before did, the other
\* channel changed: one event, none for the motion channel
C26_Witness ==
    /\ ev.op = "poll_reads"
    /\ ev.reads[MotionIndex] = "high"
    /\ lj.last_input_states[MotionIndex]
    /\ Len(ev.input_changes) = 1
    /\ ev.input_changes[1].channel # InputChannels[MotionIndex]

\* The monitor thread is scheduled: a poll that can be taken is taken.  That
\* getDIState raises is up to the device and is not assumed.
SpecMonitorLive ==
    /\ Init
    /\ [][NextMonitor]_vars
    /\ WF_vars(\E reads \in PollReads : MonitorPollReads(reads))

\* C27: while monitoring runs with the DAQ connected, a pass of monitor_loop
\* is always followed by another poll.
C27_KeepsPolling ==
    (lj.running /\ lj.connected /\ lj.pc = "log_states") ~> (lj.pc = "poll")

\* ------------------------------------------------ manual channels at rest
\* the steps that are ShearState transitions
ShearTransitions ==
    {"scan", "authorized_unlock", "timer_expiry", "manual_lock", "logout",
     "emergency_stop", "emergency_unlock"}

\* C28: no ShearState transition (Authorized unlock, timer expiry, manual
\* lock, logout, emergency stop, emergency unlock) changes the level of an
\* output channel that is in manual mode.
C28_ManualChannelsIgnoreShear ==
    [][ev'.op \in ShearTransitions =>
         \A channel \in OutputChannels :
             app.output_modes[channel] = "manual" =>
                 lj'.output_states[channel] = lj.output_states[channel]]_vars

\* ------------------------------------------------ the threads of app.py
\* unlock_shear, lock_shear, start_shear_timeout_timer and
\* handle_labjack_input_change take no lock.  Here each runs statement by
\* statement on its thread: the sensor thread (a rising edge on the motion
\* channel), the reader thread (an Authorized scan), a request thread (the
\* lock command) and the threads of the threading.Timer objects.  A timer is
\* [id, due, pc]: waiting for its time, or inside lock_shear.  cancel() ends
\* a waiting timer and has no effect on one whose function has started.
MaxTimers == 2

ThreadsIdle == [sensor |-> "idle", scan |-> "idle", lock |-> "idle"]

AppThreads == AppInit @@ [threads |-> ThreadsIdle]

\* ghost: timers created, timers whose function started, timers on which
\* another thread called cancel(), and whether a cycle was counted while
\* the shear was Locked
HistThreads ==
    HistInit @@ [created |-> 0, fired |-> {}, cancelled |-> {},
                 late_cycle |-> FALSE]

\* threading.Timer.cancel() on the timer `ref` refers to
timer_cancel(tms, ref) ==
    IF ref = None THEN tms
    ELSE {t \in tms : ~(t.id = ref.id /\ t.pc = "waiting")}

\* ghost of a cancel() called by a thread other than the timer's own
CancelledBy(ref) ==
    IF ref = None THEN hist.cancelled ELSE hist.cancelled \cup {ref.id}

\* start_shear_timeout_timer, lines 345-346: cancel the existing timer
RestartCancel(thread, next_pc) ==
    /\ timers' = timer_cancel(timers, app.shear_unlock_timer)
    /\ hist' = [hist EXCEPT !.cancelled = CancelledBy(app.shear_unlock_timer)]
    /\ app' = [app EXCEPT !.threads[thread] = next_pc]
    /\ UNCHANGED <<now, reader, lj, db>>

\* start_shear_timeout_timer, lines 349-354: timestamp, new Timer, start()
RestartStart(thread, next_pc) ==
    LET timer == [id |-> hist.created + 1,
                  due |-> now + app.SHEAR_SETTINGS.unlock_timeout,
                  pc |-> "waiting"]
    IN  /\ hist.created < MaxTimers
        /\ timers' = timers \cup {timer}
        /\ hist' = [hist EXCEPT !.created = @ + 1]
        /\ app' = [app EXCEPT !.shear_unlock_timestamp = [at |-> now],
                              !.shear_unlock_timer = [id |-> timer.id],
                              !.threads[thread] = next_pc]
        /\ UNCHANGED <<now, reader, lj, db>>

\* lock_shear, lines 300-302, run by a request thread or by timer `self`
LockCancel(self) ==
    /\ timers' = {IF t.id = self THEN [t EXCEPT !.pc = "lock_output"] ELSE t :
                     t \in timer_cancel(timers, app.shear_unlock_timer)}
    /\ hist' = IF app.shear_unlock_timer # None
                  /\ app.shear_unlock_timer.id = self
               THEN hist
               ELSE [hist EXCEPT !.cancelled = CancelledBy(app.shear_unlock_timer)]
    /\ app' = [app EXCEPT !.shear_unlock_timer = None,
                          !.threads.lock = IF self = 0 THEN "lock_output" ELSE @]
    /\ UNCHANGED <<now, reader, lj, db>>

\* lock_shear, lines 305-312: the output, in auto mode
LockOutput(self) ==
    /\ lj' = IF lj.connected /\ app.output_modes[ShearPin] = "auto"
             THEN set_digital_output(lj, ShearPin, FALSE) ELSE lj
    /\ timers' = {IF t.id = self THEN [t EXCEPT !.pc = "lock_state"] ELSE t :
                     t \in timers}
    /\ app' = [app EXCEPT !.threads.lock = IF self = 0 THEN "lock_state" ELSE @]
    /\ UNCHANGED <<now, reader, db, hist>>

\* lock_shear, lines 315-317: the logical state; the function returns
LockState(self) ==
    /\ timers' = {t \in timers : t.id # self}
    /\ app' = [app EXCEPT !.shear_unlocked = FALSE,
                          !.shear_unlock_timestamp = None,
                          !.shear_unlock_user = None,
                          !.threads.lock = IF self = 0 THEN "idle" ELSE @]
    /\ UNCHANGED <<now, reader, lj, db, hist>>

\* a Timer thread: its time has come and it calls lock_shear
TimerFires(timer) ==
    /\ timer \in timers /\ timer.pc = "waiting" /\ timer.due <= now
    /\ timers' = (timers \ {timer}) \cup {[timer EXCEPT !.pc = "lock_cancel"]}
    /\ hist' = [hist EXCEPT !.fired = @ \cup {timer.id}]
    /\ ev' = [op |-> "timer_fires", id |-> timer.id]
    /\ UNCHANGED <<now, reader, app, lj, db>>

TimerStep(timer) ==
    /\ timer \in timers
    /\ \/ timer.pc = "lock_cancel" /\ LockCancel(timer.id)
       \/ timer.pc = "lock_output" /\ LockOutput(timer.id)
       \/ timer.pc = "lock_state" /\ LockState(timer.id)
    /\ ev' = [op |-> "timer_step", id |-> timer.id]

\* api_lock_shear on a request thread
LockRequest ==
    /\ \/ /\ app.threads.lock = "idle"
          /\ app' = [app EXCEPT !.threads.lock = "lock_cancel"]
          /\ UNCHANGED <<now, reader, lj, db, timers, hist>>
       \/ app.threads.lock = "lock_cancel" /\ LockCancel(0)
       \/ app.threads.lock = "lock_output" /\ LockOutput(0)
       \/ app.threads.lock = "lock_state" /\ LockState(0)
    /\ ev' = [op |-> "lock_request"]

\* handle_labjack_input_change on the sensor thread, for a rising edge on
\* the motion channel: the test of shear_unlocked (line 367), the restart
\* of the timer (line 372), the cycle count (line 375)
MotionThread ==
    /\ \/ /\ app.threads.sensor = "idle"
          /\ app.shear_cycles < MaxCycles
          /\ app' = [app EXCEPT !.threads.sensor = "test"]
          /\ UNCHANGED <<now, reader, lj, db, timers, hist>>
       \/ /\ app.threads.sensor = "test"
          /\ app' = [app EXCEPT !.threads.sensor =
                                   IF app.shear_unlocked THEN "cancel" ELSE "idle"]
          /\ UNCHANGED <<now, reader, lj, db, timers, hist>>
       \/ app.threads.sensor = "cancel" /\ RestartCancel("sensor", "start")
       \/ app.threads.sensor = "start" /\ RestartStart("sensor", "count")
       \/ /\ app.threads.sensor = "count"
          /\ app' = [app EXCEPT !.shear_cycles = @ + 1,
                                !.threads.sensor = "idle"]
          /\ hist' = [hist EXCEPT !.late_cycle = @ \/ ~app.shear_unlocked]
          /\ UNCHANGED <<now, reader, lj, db, timers>>
    /\ ev' = [op |-> "motion_thread"]

\* unlock_shear on the reader thread, for an Authorized scan: the cancel of
\* the existing timer (lines 257-258), the output and the logical state
\* (261-274), then start_shear_timeout_timer (line 289)
UnlockThread ==
    /\ \/ /\ app.threads.scan = "idle"
          /\ hist.created < MaxTimers
          /\ app' = [app EXCEPT !.threads.scan = "cancel"]
          /\ UNCHANGED <<now, reader, lj, db, timers, hist>>
       \/ app.threads.scan = "cancel" /\ RestartCancel("scan", "set")
       \/ /\ app.threads.scan = "set"
          /\ lj' = IF lj.connected /\ app.output_modes[ShearPin] = "auto"
                   THEN set_digital_output(lj, ShearPin, TRUE) ELSE lj
          /\ app' = [app EXCEPT !.shear_unlocked = TRUE,
                                !.shear_unlock_timestamp = [at |-> now],
                                !.shear_unlock_user = [name |-> "user"],
                                !.shear_cycles = 0,
                                !.threads.scan = "restart_cancel"]
          /\ UNCHANGED <<now, reader, db, timers, hist>>
       \/ app.threads.scan = "restart_cancel"
              /\ RestartCancel("scan", "restart_start")
       \/ app.threads.scan = "restart_start" /\ RestartStart("scan", "idle")
    /\ ev' = [op |-> "unlock_thread"]

InitThreads ==
    /\ now = 0
    /\ reader = ReaderInit
    /\ app = AppThreads
    /\ lj = LabJackInit(TRUE)
    /\ db = EnrolledDb
    /\ timers = {}
    /\ ev = [op |-> "init"]
    /\ hist = HistThreads

NextThreads ==
    \/ Tick
    \/ \E timer \in timers : TimerFires(timer)
    \/ \E timer \in timers : TimerStep(timer)
    \/ LockRequest
    \/ MotionThread
    \/ UnlockThread

SpecThreads == InitThreads /\ [][NextThreads]_vars

\* no handler is in progress on any thread
Quiescent ==
    /\ app.threads = ThreadsIdle
    /\ \A t \in timers : t.pc = "waiting"

\* C29: in no quiescent state is the shear Locked with an expiry timer still
\* pending, has a timer been cancelled by another thread and run lock_shear
\* all the same, or has a cycle been counted for a motion edge after the
\* lock took effect.
C29_AsIfSerialized ==
    Quiescent =>
        /\ ~app.shear_unlocked => timers = {}
        /\ hist.fired \cap hist.cancelled = {}
        /\ ~hist.late_cycle

\* C30: at every moment at most one expiry timer is waiting for its time,
\* and no timer that a restart has cancelled runs lock_shear.
C30_TimerNeverStacked ==
    /\ Cardinality({t \in timers : t.pc = "waiting"}) <= 1
    /\ \A t \in timers : t.pc # "waiting" => t.id \notin hist.cancelled

\* ------------------------------------------- auto channel and ShearState
\* C31: with the DAQ connected, whenever the configured shear output channel
\* is in auto mode its level is HIGH exactly when the shear is Unlocked.
C31_AutoLevelFollowsShear ==
    (lj.connected /\ app.output_modes[ShearPin] = "auto") =>
        (lj.output_states[ShearPin] <=> app.shear_unlocked)

\* ------------------------------------------------- the time remaining
\* C32: the timeout_remaining api_status reports is the time left until the
\* pending expiry timer fires, and 0 when no timer is pending.
C32_RemainingIsTimeToExpiry ==
    /\ timers = {} => timeout_remaining(app, now) = 0
    /\ \A timer \in timers : timeout_remaining(app, now) = timer.due - now

\* ------------------------------------------------------- the heartbeat
\* event_stream keeps last_heartbeat, the time it last wrote to its client
\* (an event or a heartbeat), starting at the time the stream was opened.
\* The interval of 30 s is scaled to ticks.
HeartbeatInterval == 2

\* event_stream: the queue is empty and more than the interval has passed
\* since last_heartbeat; a heartbeat is yielded
StreamHeartbeat(s) ==
    /\ app.event_streams[s].pc = "check"
    /\ app.card_scan_events = <<>>
    /\ now - app.event_streams[s].last_heartbeat > HeartbeatInterval
    /\ app' = [app EXCEPT !.event_streams[s].last_heartbeat = now]
    /\ ev' = [op |-> "heartbeat", stream |-> s]
    /\ UNCHANGED <<now, reader, lj, db, timers, hist>>

NextHeartbeat ==
    \/ Tick
    \/ PublishLock
    \/ \E s \in Streams :
           \/ Subscribe(s)
           \/ StreamCheck(s)
           \/ StreamPop(s)
           \/ StreamYield(s)
           \/ StreamHeartbeat(s)

SpecHeartbeat == InitStreaming /\ [][NextHeartbeat]_vars

\* C33: a heartbeat is written to a stream only when no event has been
\* published for the heartbeat interval, and writing it changes neither the
\* queue of events nor the audit log.
C33_HeartbeatOnlyWhenQuiet ==
    [][ev'.op = "heartbeat" =>
         /\ hist.published_at # None =>
                now - hist.published_at.at >= HeartbeatInterval
         /\ app'.card_scan_events = app.card_scan_events
         /\ db' = db]_vars

\* ------------------------------------------------ loss of the card reader
\* CardReader.monitor_loop with the device it polls.  `device` is "self.device
\* is not None"; `attached` says the reader is plugged in; `handle` says the
\* hid handle self.device holds is open on the attached reader.  Unplugging
\* the reader ends the handle; only connect() opens a new one.
ReaderPolling(attached) ==
    ReaderInit @@ [device |-> attached, attached |-> attached,
                   handle |-> attached]

\* the reader is unplugged
DeviceLost ==
    /\ reader.attached
    /\ reader' = [reader EXCEPT !.attached = FALSE, !.handle = FALSE]
    /\ ev' = [op |-> "device_lost"]
    /\ UNCHANGED <<now, app, lj, db, timers, hist>>

\* the reader is plugged in again
DeviceBack ==
    /\ ~reader.attached
    /\ reader' = [reader EXCEPT !.attached = TRUE]
    /\ ev' = [op |-> "device_back"]
    /\ UNCHANGED <<now, app, lj, db, timers, hist>>

\* monitor_loop: is_connected() is False and connect() is tried
ReaderLoopConnect ==
    /\ ~reader.device
    /\ reader' = IF reader.attached
                 THEN [reader EXCEPT !.device = TRUE, !.handle = TRUE]
                 ELSE reader
    /\ ev' = [op |-> "connect", connected |-> reader.attached]
    /\ UNCHANGED <<now, app, lj, db, timers, hist>>

\* monitor_loop: is_connected() is True and read_card_data reads a report
ReaderLoopRead(raw_data) ==
    /\ reader.device
    /\ reader.handle
    /\ ParseReport(raw_data)

\* monitor_loop: is_connected() is True and device.read raises; read_card_data
\* logs the error and returns None
ReaderLoopReadFails ==
    /\ reader.device
    /\ ~reader.handle
    /\ ev' = [op |-> "read_error"]
    /\ UNCHANGED <<now, reader, app, lj, db, timers, hist>>

ReaderLoop ==
    \/ ReaderLoopConnect
    \/ ReaderLoopReadFails
    \/ \E raw_data \in RawReports : ReaderLoopRead(raw_data)

InitPolling ==
    /\ now = 0
    /\ \E attached \in BOOLEAN : reader = ReaderPolling(attached)
    /\ app = AppInit
    /\ lj = LabJackInit(TRUE)
    /\ db = DbInit
    /\ timers = {}
    /\ ev = [op |-> "init"]
    /\ hist = HistInit

NextPolling ==
    \/ Tick
    \/ DeviceLost
    \/ DeviceBack
    \/ ReaderLoop

\* the polling thread keeps running: it goes on trying connect() and
\* read_card_data(); whether a read returns a report is up to the cards shown
SpecPolling ==
    InitPolling /\ [][NextPolling]_vars
    /\ WF_vars(ReaderLoopConnect \/ ReaderLoopReadFails)

\* C34: whenever the reader is attached and the polling loop holds no open
\* handle on it, the loop eventually holds one (or the reader is unplugged
\* again): monitoring resumes once the device is available.
C34_MonitoringResumes ==
    (reader.attached /\ ~reader.handle) ~> (reader.handle \/ ~reader.attached)

\* ------------------------------------------------ restarting the hardware
\* api_restart_hardware calls initialize_components, which makes a new
\* CardReader and a new LabJackU3 and starts the monitor thread of the new
\* LabJackU3 if its connect() succeeds.  It does not call stop_monitoring on
\* the objects it replaces: `earlier` holds the monitor threads of replaced
\* LabJackU3 objects, each with the last_input_states of its own object.  The
\* new CardReader is not started; the thread of the first one goes on.
MaxRestarts == 1

\* initialize_components on a running application; `connects` is the result
\* of u3.U3() while an earlier object holds the device open
RestartHardware(connects) ==
    /\ Len(lj.earlier) < MaxRestarts
    /\ lj' = [lj EXCEPT
                 !.connected = connects,
                 !.running = connects,
                 !.pc = "poll",
                 !.last_input_states = [i \in 1..Len(InputChannels) |-> FALSE],
                 !.earlier = IF lj.running
                             THEN Append(@, [pc |-> lj.pc,
                                             last_input_states |->
                                                 lj.last_input_states])
                             ELSE @]
    /\ ev' = [op |-> "restart_hardware", connects |-> connects]
    /\ UNCHANGED <<now, reader, app, db, timers, hist>>

\* One pass of monitor_loop on the thread of the replaced object k
MonitorPollEarlier(k, current_inputs) ==
    LET w == check_input_changes(
                 [World EXCEPT !.lj.last_input_states =
                                   lj.earlier[k].last_input_states],
                 current_inputs, 1, now)
    IN  /\ k \in DOMAIN lj.earlier
        /\ lj.earlier[k].pc = "poll"
        /\ app.shear_cycles < MaxCycles
        /\ app' = w.app
        /\ timers' = w.timers
        /\ lj' = [lj EXCEPT !.earlier[k] =
                                [pc |-> "log_states",
                                 last_input_states |-> w.lj.last_input_states]]
        /\ ev' = [op |-> "poll_earlier", input_changes |-> w.input_changes]
        /\ UNCHANGED <<now, reader, db, hist>>

\* getDIState raises in the inner loop of the replaced object k
MonitorEarlierLogRaises(k) ==
    /\ k \in DOMAIN lj.earlier
    /\ lj.earlier[k].pc = "log_states"
    /\ lj' = [lj EXCEPT !.earlier[k].pc = "poll"]
    /\ ev' = [op |-> "log_states_raises_earlier"]
    /\ UNCHANGED <<now, reader, app, db, timers, hist>>

InitRestart ==
    /\ now = 0
    /\ reader = ReaderInit
    /\ app = AppInit
    /\ \E connected \in BOOLEAN :
           lj = LabJackInit(connected) @@ [earlier |-> <<>>]
    /\ db = EnrolledDb
    /\ timers = {}
    /\ ev = [op |-> "init"]
    /\ hist = HistInit

\* time stands still
NextRestart ==
    \/ AuthorizedUnlock
    \/ ManualLock
    \/ \E current_inputs \in InputSamples : MonitorPoll(current_inputs)
    \/ MonitorStateLogRaises
    \/ \E connects \in BOOLEAN : RestartHardware(connects)
    \/ \E k \in 1..MaxRestarts, current_inputs \in InputSamples :
           MonitorPollEarlier(k, current_inputs)
    \/ \E k \in 1..MaxRestarts : MonitorEarlierLogRaises(k)

SpecRestart == InitRestart /\ [][NextRestart]_vars

\* C35: at most one sensor-polling thread is running: the thread of the
\* current LabJackU3, and no thread of an object that a restart replaced
\* beside it.
C35_OneSensorTask ==
    (IF lj.running THEN 1 ELSE 0) + Len(lj.earlier) <= 1

\* ------------------------------------------------- the refused scan
\* The step is a scan decided PendingApproval or Unknown
RefusedScan ==
    /\ ev'.op = "scan"
    /\ Decision(db, ev'.card_id, ev'.faults) \in {"pending", "unknown"}

\* C36: a scan decided PendingApproval or Unknown, whether or not a Directory
\* query failed, leaves the locked flag, the unlock actor and time, the
\* cycles, the expiry timer, every output level and mode, the settings, the
\* users and the pending requests as they were; it stores the card as the
\* last card read and appends the 'scan' row and the outcome row to the
\* audit log.
C36_RefusedScanFrame ==
    [][RefusedScan =>
         /\ ShearState' = ShearState
         /\ lj' = lj
         /\ app' = [app EXCEPT !.last_card_read = [card_id |-> ev'.card_id]]
         /\ db'.users = db.users
         /\ db'.pending_requests = db.pending_requests
         /\ AuditedScan(ev'.card_id, Decision(db, ev'.card_id, ev'.faults))]_vars

\* a card with a pending request and no users row has been scanned while
\* the shear was Unlocked with its timer pending, and they still are
C36_Witness ==
    /\ ev.op = "scan"
    /\ ev.faults = {}
    /\ ev.card_id \in db.pending_requests
    /\ ev.card_id \notin DOMAIN db.users
    /\ db.scan_events[Len(db.scan_events)] =
           [card_id |-> ev.card_id, result |-> "pending"]
    /\ app.last_card_read = [card_id |-> ev.card_id]
    /\ app.shear_unlocked
    /\ app.shear_unlock_timer \in timers

\* ------------------------------------------- the buffer after a parse
\* C37: after every parse_card_data call the pending buffer holds fewer than
\* MinFrameBytes bytes.
C37_BufferBelowFrame ==
    ev.op = "parse" => Len(reader.card_buffer) < MinFrameBytes

\* ------------------------------------------- Unlocked without a timer
\* C38: whenever the shear is Unlocked, the expiry timer the application
\* refers to is pending.
C38_UnlockedHasTimer ==
    app.shear_unlocked => app.shear_unlock_timer \in timers

\* ------------------------------------------------- users and requests
\* api_add_user: refused when the card has a users row; otherwise it calls
\* db.add_user with six arguments, one more than its five parameters, the
\* TypeError is caught and the request ends with status 500: no row is
\* written on either path
api_add_user(w, card_id) ==
    IF get_user(w.db, card_id, FALSE) # None THEN w
    ELSE w

AddUser(card_id) ==
    /\ Becomes(api_add_user(World, card_id))
    /\ ev' = [op |-> "add_user", card_id |-> card_id,
              status |-> IF get_user(db, card_id, FALSE) # None
                         THEN 400 ELSE 500]
    /\ UNCHANGED <<now, reader, hist>>

\* submit_access_request: refused when the card has a users row; a pending
\* request of the card is replaced.  With auto_accept_enabled it then calls
\* db.add_user with six arguments: the TypeError ends the request with
\* status 500 and the pending request stays
submit_access_request(w, card_id, auto_accept_enabled) ==
    IF get_user(w.db, card_id, FALSE) # None THEN w
    ELSE [w EXCEPT !.db = add_pending_request(
                              remove_pending_request(@, card_id), card_id).db]

SubmitAccessRequest(card_id, auto_accept_enabled) ==
    /\ Becomes(submit_access_request(World, card_id, auto_accept_enabled))
    /\ ev' = [op |-> "submit_access_request", card_id |-> card_id,
              status |-> IF get_user(db, card_id, FALSE) # None THEN 400
                         ELSE IF auto_accept_enabled THEN 500 ELSE 200]
    /\ UNCHANGED <<now, reader, hist>>

\* remove_fails: the DELETE of remove_pending_request fails with a database
\* error, which approve_request does not look at
NextEnrol ==
    \/ \E card_id \in Cards : RequestAccess(card_id)
    \/ \E card_id \in Cards, auto_accept_enabled \in BOOLEAN :
           SubmitAccessRequest(card_id, auto_accept_enabled)
    \/ \E card_id \in Cards, shift \in Shifts, remove_fails \in BOOLEAN :
           ApproveRequest(card_id, shift, remove_fails)
    \/ \E card_id \in Cards : DenyRequest(card_id)
    \/ \E card_id \in Cards : AddUser(card_id)
    \/ \E card_id \in Cards, user_role \in UserRoles :
           RemoveUser(card_id, user_role)

SpecEnrol == InitDir /\ [][NextEnrol]_vars

\* C39: no card identifier has a users row and a pending request at the
\* same time.
C39_UsersPendingDisjoint ==
    DOMAIN db.users \cap db.pending_requests = {}

====
